---- MODULE Spec2Model ----
(***************************************************************************)
(* usagedash: provider adapters, merge_usage reconciliation, snapshot      *)
(* assembly and the snapshot files.                                        *)
(*                                                                         *)
(* Python values are tagged records so that None, numbers, datetimes,      *)
(* strings, lists and dicts stay distinct and Python truthiness (`x or y`) *)
(* can be modelled as the interpreter evaluates it.  Floats are exact      *)
(* rationals n/d.  A datetime is a minute count plus the microseconds      *)
(* inside that minute.                                                     *)
(***************************************************************************)
EXTENDS Integers, Sequences, FiniteSets, TLC

VARIABLES
    clock,      \* the wall clock, in ticks (see Now)
    name,       \* merge_usage argument: the provider identity
    partial,    \* merge_usage argument: the PartialUsage object (or None)
    cfg,        \* merge_usage argument: the ProviderConfig object
    partial0,   \* history: the PartialUsage as it was handed in
    cfg0,       \* history: the ProviderConfig as it was handed in
    results,    \* history: the ProviderSnapshot each merge_usage call returned
    disk,       \* the files the adapters read, and whether the mirror can be written
    config,     \* cfg.providers: the ProviderConfig of each provider
    pc,         \* where the refresh cycle stands
    providers,  \* build_snapshot's local list
    invoked,    \* history: the providers whose collect was called this cycle
    raised,     \* the exception that ended the cycle, or "none"
    snapshot,   \* the UsageSnapshot build_snapshot returned (None before)
    state_file, \* content of cfg.general.state_file
    mirror_file,\* content of cfg.general.windows_state_path
    readback,   \* what the tray's last summary_line gave
    icon,       \* the tray's pystray.Icon: its visible flag and its title
    tray,       \* where run_tray stands
    refresh_loop, \* where the tray's refresh thread stands
    adapter,    \* line experiment: the adapter
    log,        \* line experiment: the lines of the log file
    removed,    \* line experiment: the line taken out (0 before)
    with_line,  \* line experiment: _parse of the file as it is
    without_line, \* line experiment: _parse of the file less that line
    tree,       \* engine experiment: the project logs, in the order rglob gives them
    tree_was,   \* engine experiment: the same lines in the order they had before
    analysis,   \* engine experiment: what the engine derives from tree
    analysis_was, \* engine experiment: what it derives from tree_was
    series,     \* engine experiment: a series of per-session totals
    estimate,   \* engine experiment: _p90 of the series (None before the call)
    segmentation \* engine experiment: the segmentation loop's i and sessions

mergeVars == <<name, partial, cfg, partial0, cfg0, results>>
pipeVars == <<disk, config, pc, providers, invoked, raised, snapshot,
              state_file, mirror_file, readback, icon, tray, refresh_loop>>
lineVars == <<adapter, log, removed, with_line, without_line>>
engineVars == <<tree, tree_was, analysis, analysis_was, series, estimate, segmentation>>
vars == <<clock, mergeVars, pipeVars, lineVars, engineVars>>

---------------------------------------------------------------------------
(* Bounds of the model *)

MaxClock == 2
MaxCalls == 2
MaxLines == 3
MaxSeries == 3

---------------------------------------------------------------------------
(* Python values *)

None == [t |-> "none"]
Rat(n, d) == [t |-> "num", n |-> n, d |-> d]
Num(n) == Rat(n, 1)
Dt(m, u) == [t |-> "dt", min |-> m, us |-> u]
Str(s) == [t |-> "str", s |-> s]
List(l) == [t |-> "list", l |-> l]
Dict(items) == [t |-> "dict", items |-> items]
\* One entry of a dict whose key is a string literal.
Item(key, v) == [k |-> Str(key), v |-> v]

IsNone(v) == v.t = "none"

\* bool(v) as the interpreter computes it: None, 0, 0.0, "", [] and {} are
\* false; a datetime and a dataclass instance are always true.
Truthy(v) ==
    CASE v.t = "none" -> FALSE
      [] v.t = "num"  -> v.n # 0
      [] v.t = "str"  -> v.s # ""
      [] v.t = "list" -> v.l # <<>>
      [] v.t = "dict" -> v.items # <<>>
      [] OTHER        -> TRUE

\* Python's `a or b`.
PyOr(a, b) == IF Truthy(a) THEN a ELSE b

---------------------------------------------------------------------------
(* models.py, config.py, providers/base.py: the value shapes *)

ProviderName == {"codex", "claude", "gemini"}

ManualFields(su, sr, wu, wr) ==
    [session_used_pct |-> su, session_reset_at |-> sr,
     weekly_used_pct |-> wu, weekly_reset_at |-> wr]

ProviderConfig(enabled, mode, manual) ==
    [enabled |-> enabled, parser_mode |-> mode, manual |-> manual]

PartialUsage(su, sr, wu, wr, details, messages) ==
    [t |-> "PartialUsage",
     session_used_pct |-> su, session_reset_at |-> sr,
     weekly_used_pct |-> wu, weekly_reset_at |-> wr,
     details |-> details, messages |-> messages]

ProviderSnapshot(provider, status, su, sr, wu, wr, source, messages, details, updated_at) ==
    [provider |-> provider, status |-> status,
     session_used_pct |-> su, session_reset_at |-> sr,
     weekly_used_pct |-> wu, weekly_reset_at |-> wr,
     source |-> source, messages |-> messages, details |-> details,
     updated_at |-> updated_at]

\* A message: a text, and the value an f-string puts in its braces ("" if none).
Msg(text) == [text |-> text, arg |-> ""]
MsgArg(text, arg) == [text |-> text, arg |-> arg]

MSG_RESET_MISSING == Msg("usage detected but reset timestamps missing")
MSG_CONFIGURE_MANUAL == Msg("no usage metrics detected; configure providers.<name>.manual.*")

\* datetime.now(...) at clock tick c: even ticks fall on a whole minute, odd
\* ticks a quarter of a second after it.
Now(c) == Dt(c \div 2, (c % 2) * 250000)

---------------------------------------------------------------------------
(* providers/base.py: merge_usage *)

\* Faulty variant of reconcile_pct: `parsed or manual`, which drops a parsed 0.0.
reconcile_pct_truthy(parsed_v, manual_v) == PyOr(parsed_v, manual_v)

\* lines 34, 36: `p if p is not None else m`
reconcile_pct(parsed_v, manual_v) ==
    IF ~IsNone(parsed_v) THEN parsed_v ELSE manual_v

\* Faulty variant of reconcile_reset: manual override wins.
reconcile_reset_manual_first(parsed_v, manual_v) == PyOr(manual_v, parsed_v)

\* lines 35, 37: `p or m`
reconcile_reset(parsed_v, manual_v) == PyOr(parsed_v, manual_v)

\* lines 39-44: any(v is not None for v in [...four fields...])
any_field(r) ==
    \E v \in {r.session_used_pct, r.session_reset_at,
              r.weekly_used_pct, r.weekly_reset_at} : ~IsNone(v)

\* Faulty variant of merge_source: the final else labels the record "parsed".
merge_source_else_parsed(parsed_any, manual_any) ==
    IF parsed_any /\ manual_any THEN "mixed"
    ELSE IF manual_any THEN "manual"
    ELSE "parsed"

\* Faulty variant of merge_source: a parsed field hides the manual ones.
merge_source_no_mixed(parsed_any, manual_any) ==
    IF parsed_any THEN "parsed" ELSE "manual"

\* lines 46-51
merge_source(parsed_any, manual_any) ==
    IF parsed_any /\ manual_any THEN "mixed"
    ELSE IF parsed_any THEN "parsed"
    ELSE "manual"

\* Faulty variant of merge_status: reset-only records are reported as errors.
merge_status_no_elif(su, sr, wu, wr, parsed_any, manual_any) ==
    IF ~IsNone(su) \/ ~IsNone(wu)
    THEN IF ~IsNone(sr) \/ ~IsNone(wr)
         THEN [status |-> "ok", advisory |-> <<>>]
         ELSE [status |-> "partial", advisory |-> <<MSG_RESET_MISSING>>]
    ELSE [status |-> "error", advisory |-> <<MSG_CONFIGURE_MANUAL>>]

\* lines 53-63: the status and the advisory appended to messages
merge_status(su, sr, wu, wr, parsed_any, manual_any) ==
    IF ~IsNone(su) \/ ~IsNone(wu)
    THEN IF ~IsNone(sr) \/ ~IsNone(wr)
         THEN [status |-> "ok", advisory |-> <<>>]
         ELSE [status |-> "partial", advisory |-> <<MSG_RESET_MISSING>>]
    ELSE IF parsed_any \/ manual_any
         THEN [status |-> "partial", advisory |-> <<>>]
         ELSE [status |-> "error", advisory |-> <<MSG_CONFIGURE_MANUAL>>]

\* line 31: `partial or PartialUsage(messages=[])` (an instance is truthy)
merge_parsed(p) ==
    IF Truthy(p) THEN p
    ELSE PartialUsage(None, None, None, None, None, List(<<>>))

\* lines 29-76: the ProviderSnapshot merge_usage returns
merge_snapshot(nm, p, c, now) ==
    LET parsed == merge_parsed(p)
        messages == PyOr(parsed.messages, List(<<>>)).l
        session_used == reconcile_pct(parsed.session_used_pct, c.manual.session_used_pct)
        session_reset == reconcile_reset(parsed.session_reset_at, c.manual.session_reset_at)
        weekly_used == reconcile_pct(parsed.weekly_used_pct, c.manual.weekly_used_pct)
        weekly_reset == reconcile_reset(parsed.weekly_reset_at, c.manual.weekly_reset_at)
        parsed_any == any_field(parsed)
        manual_any == any_field(c.manual)
        st == merge_status(session_used, session_reset, weekly_used, weekly_reset,
                           parsed_any, manual_any)
    IN  ProviderSnapshot(nm, st.status, session_used, session_reset,
                         weekly_used, weekly_reset,
                         merge_source(parsed_any, manual_any),
                         messages \o st.advisory,
                         PyOr(parsed.details, Dict(<<>>)),
                         now)

\* Faulty variant of merge_usage: `messages = parsed.messages` without the list()
\* copy, so the advisory is appended to the caller's list.
merge_usage_aliased(nm, p, c, now) ==
    LET snap == merge_snapshot(nm, p, c, now)
    IN  [ret |-> snap,
         partial |-> IF Truthy(p) /\ Truthy(p.messages)
                     THEN [p EXCEPT !.messages = List(snap.messages)]
                     ELSE p,
         cfg |-> c]

\* lines 29-76: merge_usage with its effect on the objects it was handed.
\* `messages` is a fresh list (line 32) and nothing is assigned through
\* `partial` or `cfg`, so both objects come back as they went in.
merge_usage(nm, p, c, now) ==
    [ret |-> merge_snapshot(nm, p, c, now), partial |-> p, cfg |-> c]

---------------------------------------------------------------------------
(* Arithmetic on the modelled floats and datetimes *)

Max(a, b) == IF a >= b THEN a ELSE b

RECURSIVE GCD(_, _)
GCD(a, b) == IF b = 0 THEN a ELSE GCD(b, a % b)

\* n/d in lowest terms, d > 0.
RatNorm(n, d) == LET g == GCD(IF n < 0 THEN -n ELSE n, d) IN Rat(n \div g, d \div g)
RatAdd(a, b) == RatNorm(a.n * b.d + b.n * a.d, a.d * b.d)
RatSub(a, b) == RatNorm(a.n * b.d - b.n * a.d, a.d * b.d)
RatMul(a, b) == RatNorm(a.n * b.n, a.d * b.d)
RatDiv(a, b) == RatNorm(a.n * b.d, a.d * b.n)
RatLe(a, b) == a.n * b.d <= b.n * a.d
RatMax(a, b) == IF RatLe(b, a) THEN a ELSE b

\* round(x, 1) for x >= 0: to the nearest tenth, ties to the even tenth.
Round1(x) ==
    LET q == (x.n * 10) \div x.d
        r == (x.n * 10) % x.d
        up == 2 * r > x.d \/ (2 * r = x.d /\ q % 2 = 1)
    IN  RatNorm(IF up THEN q + 1 ELSE q, 10)

\* int(x) for x >= 0
IntOf(x) == Num(x.n \div x.d)

UsPerMinute == 60000000
MinutesPerDay == 1440
FIVE_HOURS == 300
SEVEN_DAYS == 10080

DtLe(a, b) == a.min < b.min \/ (a.min = b.min /\ a.us <= b.us)
DtLt(a, b) == a.min < b.min \/ (a.min = b.min /\ a.us < b.us)
DtAddMinutes(a, m) == Dt(a.min + m, a.us)
\* (later - earlier).total_seconds() / 60.0
MinutesBetween(later, earlier) ==
    RatAdd(Num(later.min - earlier.min), RatNorm(later.us - earlier.us, UsPerMinute))

---------------------------------------------------------------------------
(* Results of a call: a value, or the exception that propagates *)

Returns(v) == [exc |-> "none", value |-> v]
Raises(e) == [exc |-> e, value |-> None]

---------------------------------------------------------------------------
(* providers/codex.py: the structured session logs                         *)
(*                                                                         *)
(* A log line is what json.loads makes of it:                              *)
(*   [k |-> "bad"]     not JSON (JSONDecodeError)                          *)
(*   [k |-> "scalar"]  JSON, but not an object (no .get)                   *)
(*   [k |-> "obj", ts, type, payload]                                      *)
(* ts is the "timestamp" member: [k |-> "absent"] (missing, null or ""),   *)
(* [k |-> "badstr"] (a string fromisoformat rejects), [k |-> "nonstr"] (a  *)
(* truthy non-string) or [k |-> "at", at |-> minute].                      *)
(* payload is [k |-> "absent"], [k |-> "null"] or [k |-> "dict", type,     *)
(* model, rate_limits, info]; info is None or [rate_limits,                *)
(* model_context_window, last_token_usage].                                *)
(* A rate-limit object is [t |-> "rl", primary, secondary]; a window is    *)
(* [k |-> "absent"], [k |-> "null"] or [k |-> "dict", used_percent,        *)
(* resets_at, window_minutes].                                             *)

\* codex.py 222-228 and claude.py 255-261: _parse_ts
parse_ts(ts) ==
    CASE ts.k = "absent" -> Returns(None)
      [] ts.k = "badstr" -> Returns(None)
      [] ts.k = "nonstr" -> Raises("AttributeError")
      [] OTHER           -> Returns(Dt(ts.at, 0))

\* codex.py 231-237: _unix_to_dt, for whole seconds
unix_to_dt(v) ==
    IF v.t # "num" THEN None
    ELSE Dt(v.n \div 60, (v.n % 60) * 1000000)

\* payload.get(key) of a payload that is a dict ({} when the member is absent)
payload_get(payload, key) ==
    IF payload.k = "dict" THEN payload[key] ELSE None

\* info.get(key) of `payload.get("info") or {}`
info_get(payload, key) ==
    LET info == payload_get(payload, "info")
    IN  IF IsNone(info) THEN (IF key = "last_token_usage" THEN Dict(<<>>) ELSE None)
        ELSE info[key]

\* codex.py 82-86: a session_meta line
codex_meta(st, payload) ==
    IF payload.k = "null" THEN [st EXCEPT !.exc = "AttributeError"]
    ELSE IF ~Truthy(st.model_name)
         THEN [st EXCEPT !.model_name = PyOr(payload_get(payload, "model"), None)]
         ELSE st

\* codex.py 105-117: last_token_usage of a token_count event
codex_usage(st, payload, ts, five_hours_ago) ==
    LET last_usage == info_get(payload, "last_token_usage")
    IN  IF last_usage.t = "dict" /\ ~IsNone(ts) /\ DtLe(five_hours_ago, ts)
        THEN LET inp == IF last_usage.items = <<>> THEN 0 ELSE last_usage.items[1].v.n
                 out == IF last_usage.items = <<>> THEN 0 ELSE last_usage.items[2].v.n
             IN  [st EXCEPT
                    !.session_tokens = @ + inp + out,
                    !.session_messages = @ + 1,
                    !.session_start =
                        IF IsNone(st.session_start) \/ DtLt(ts, st.session_start)
                        THEN ts ELSE st.session_start]
        ELSE st

\* Faulty variant of codex_rate_limit: a record without a usable timestamp
\* is taken as well.
codex_rate_limit_any_ts(st, payload, ts) ==
    LET rl == PyOr(payload_get(payload, "rate_limits"), info_get(payload, "rate_limits"))
    IN  IF Truthy(rl) /\ (IsNone(ts) \/ IsNone(st.latest_rl_ts) \/ DtLe(st.latest_rl_ts, ts))
        THEN [st EXCEPT !.latest_rate_limits = rl,
                        !.latest_rl_ts = IF IsNone(ts) THEN st.latest_rl_ts ELSE ts,
                        !.found_in_file = TRUE]
        ELSE st

\* codex.py 93-98: the rate-limit record of a token_count event
codex_rate_limit(st, payload, ts) ==
    LET rl == PyOr(payload_get(payload, "rate_limits"), info_get(payload, "rate_limits"))
    IN  IF Truthy(rl) /\ ~IsNone(ts) /\
           (IsNone(st.latest_rl_ts) \/ DtLe(st.latest_rl_ts, ts))
        THEN [st EXCEPT !.latest_rate_limits = rl, !.latest_rl_ts = ts,
                        !.found_in_file = TRUE]
        ELSE st

\* codex.py 100-103: the context window of a token_count event
codex_context_window(st, payload) ==
    LET cw == info_get(payload, "model_context_window")
    IN  IF cw.t = "num" /\ cw.d = 1 /\ cw.n > 0
        THEN [st EXCEPT !.context_window = cw] ELSE st

\* codex.py 89-117: an event_msg line
codex_event(st, payload, ts, five_hours_ago) ==
    IF payload.k = "null" THEN [st EXCEPT !.exc = "AttributeError"]
    ELSE IF payload_get(payload, "type") = Str("token_count")
         THEN codex_usage(
                  codex_context_window(codex_rate_limit(st, payload, ts), payload),
                  payload, ts, five_hours_ago)
         ELSE st

\* codex.py 71-117: one line of a session file
codex_line(st, line, five_hours_ago) ==
    IF st.exc # "none" THEN st
    ELSE IF line.k = "bad" THEN st
    ELSE IF line.k = "scalar" THEN [st EXCEPT !.exc = "AttributeError"]
    ELSE LET t == parse_ts(line.ts)
         IN  IF t.exc # "none" THEN [st EXCEPT !.exc = t.exc]
             ELSE IF line.type = "session_meta" THEN codex_meta(st, line.payload)
             ELSE IF line.type = "event_msg"
                  THEN codex_event(st, line.payload, t.value, five_hours_ago)
             ELSE st

RECURSIVE codex_lines(_, _, _, _)
\* codex.py 71: for line in fh
codex_lines(st, lines, i, five_hours_ago) ==
    IF i > Len(lines) THEN st
    ELSE codex_lines(codex_line(st, lines[i], five_hours_ago), lines, i + 1, five_hours_ago)

RECURSIVE codex_files(_, _, _, _)
\* codex.py 67-124: the candidate files, newest first, until one yields a
\* rate-limit record; a file that cannot be opened is passed over.
codex_files(st, candidates, i, five_hours_ago) ==
    IF i > Len(candidates) \/ st.exc # "none" THEN st
    ELSE LET f == candidates[i]
             st1 == IF f.readable
                    THEN codex_lines([st EXCEPT !.found_in_file = FALSE], f.lines, 1,
                                     five_hours_ago)
                    ELSE [st EXCEPT !.found_in_file = FALSE]
         IN  IF st1.found_in_file THEN st1
             ELSE codex_files(st1, candidates, i + 1, five_hours_ago)

RECURSIVE sorted_reverse(_)
\* codex.py 53: sorted(day_dir.glob(...), reverse=True); file names are numbered
sorted_reverse(files) ==
    IF files = {} THEN <<>>
    ELSE LET top == CHOOSE f \in files : \A g \in files : g.name <= f.name
         IN  <<top>> \o sorted_reverse(files \ {top})

\* codex.py 47-53: today's directory, then yesterday's
codex_candidates(sessions) ==
    (IF IsNone(sessions.today) THEN <<>> ELSE sorted_reverse(sessions.today.files))
    \o (IF IsNone(sessions.yesterday) THEN <<>> ELSE sorted_reverse(sessions.yesterday.files))

\* window.get(key) of `rate_limits.get("primary", {})`
window_get(w, key) == IF w.k = "dict" THEN w[key] ELSE None

\* codex.py 139-146: a number becomes a float, anything else None
as_float(v) == IF v.t = "num" THEN v ELSE None

\* codex.py 126-176: the PartialUsage built from the latest rate-limit record
codex_from_record(st, candidates, now) ==
    LET rl == st.latest_rate_limits
    IN  IF rl.t # "rl" THEN Raises("AttributeError")
        ELSE IF rl.primary.k = "null" \/ rl.secondary.k = "null"
             THEN Raises("AttributeError")
        ELSE
        LET session_used == as_float(window_get(rl.primary, "used_percent"))
            weekly_used == as_float(window_get(rl.secondary, "used_percent"))
            session_reset == unix_to_dt(window_get(rl.primary, "resets_at"))
            weekly_reset == unix_to_dt(window_get(rl.secondary, "resets_at"))
            elapsed_minutes ==
                IF ~IsNone(st.session_start)
                THEN RatMax(Num(1), MinutesBetween(now, st.session_start))
                ELSE Num(0)
            burn_rate ==
                IF st.session_tokens > 0 /\ elapsed_minutes.n > 0
                THEN RatDiv(Num(st.session_tokens), elapsed_minutes)
                ELSE Num(0)
            details == Dict(<<Item("codex_limits", Dict(<<
                Item("session_used_pct", session_used),
                Item("weekly_used_pct", weekly_used),
                Item("session_tokens", Num(st.session_tokens)),
                Item("session_messages", Num(st.session_messages)),
                Item("burn_rate_tokens_per_min", Round1(burn_rate)),
                Item("context_window", st.context_window),
                Item("model", st.model_name),
                Item("session_window_minutes", window_get(rl.primary, "window_minutes")),
                Item("weekly_window_minutes", window_get(rl.secondary, "window_minutes"))
                >>))>>)
        IN  Returns(PartialUsage(session_used, session_reset, weekly_used, weekly_reset,
                details,
                List(<<MsgArg("parsed from Codex session: {}", candidates[1].name)>>)))

\* codex.py 40-176: CodexAdapter._parse_from_sessions
parse_from_sessions(sessions, now) ==
    IF IsNone(sessions)
    THEN Returns(PartialUsage(None, None, None, None, None,
                 List(<<Msg("no Codex sessions directory found")>>)))
    ELSE LET candidates == codex_candidates(sessions)
         IN  IF candidates = <<>>
             THEN Returns(PartialUsage(None, None, None, None, None,
                          List(<<Msg("no recent Codex session files found")>>)))
             ELSE LET st == codex_files(
                               [latest_rate_limits |-> None, latest_rl_ts |-> None,
                                session_tokens |-> 0, session_messages |-> 0,
                                session_start |-> None, model_name |-> None,
                                context_window |-> None,
                                found_in_file |-> FALSE, exc |-> "none"],
                               candidates, 1, DtAddMinutes(now, -FIVE_HOURS))
                  IN  IF st.exc # "none" THEN Raises(st.exc)
                      ELSE IF IsNone(st.latest_rate_limits)
                           THEN Returns(PartialUsage(None, None, None, None, None,
                                List(<<Msg("no rate limit data found in Codex session files")>>)))
                           ELSE codex_from_record(st, candidates, now)

---------------------------------------------------------------------------
(* providers/codex.py: the free-text history log                           *)
(*                                                                         *)
(* A history line is what the two patterns find in it:                     *)
(*   five   |-> None or [left, hh, mm]            (FIVE_HOUR_RE groups)    *)
(*   weekly |-> None or [left, hh, mm, day, mon]  (WEEKLY_RE groups; mon   *)
(*              is 1..12, or 0 for three letters that name no month)       *)
(* Minute 0 of the model is 1 January 00:00 of the current (non-leap) year.*)

HISTORY_TAIL == 300

DaysInMonth == <<31, 28, 31, 30, 31, 30, 31, 31, 30, 31, 30, 31>>

RECURSIVE DaysBefore(_)
DaysBefore(mon) == IF mon <= 1 THEN 0 ELSE DaysInMonth[mon - 1] + DaysBefore(mon - 1)

\* strptime(s, "%H:%M") accepts the two digits pairs
valid_clock(hh, mm) == hh <= 23 /\ mm <= 59
\* strptime(s, "%d %b %Y %H:%M") accepts the day, the month name and the time
valid_date(day, mon) == mon \in 1..12 /\ day >= 1 /\ day <= DaysInMonth[mon]

\* codex.py 197: today's date at the clock time matched
today_at(now, hh, mm) ==
    Dt((now.min \div MinutesPerDay) * MinutesPerDay + hh * 60 + mm, 0)

\* codex.py 204-205: the matched day and month of the current year
this_year_at(day, mon, hh, mm) ==
    Dt((DaysBefore(mon) + day - 1) * MinutesPerDay + hh * 60 + mm, 0)

\* Faulty variant of used_from_left: no clamp at zero.
used_from_left_unclamped(left) == Num(100 - left)

\* Faulty variant of used_from_left: the percentage left is reported as used.
used_from_left_as_used(left) == Num(left)

\* codex.py 196, 203: max(0.0, 100.0 - left)
used_from_left(left) == Num(Max(0, 100 - left))

\* codex.py 192-208: one line of the reversed tail
history_line(st, line, now) ==
    IF st.exc # "none" \/ st.done THEN st
    ELSE
    LET s1 == IF IsNone(st.session_used) /\ ~IsNone(line.five)
              THEN IF valid_clock(line.five.hh, line.five.mm)
                   THEN [st EXCEPT
                           !.session_used = used_from_left(line.five.left),
                           !.session_reset = today_at(now, line.five.hh, line.five.mm)]
                   ELSE [st EXCEPT !.exc = "ValueError"]
              ELSE st
        s2 == IF s1.exc = "none" /\ IsNone(s1.weekly_used) /\ ~IsNone(line.weekly)
              THEN IF valid_clock(line.weekly.hh, line.weekly.mm)
                      /\ valid_date(line.weekly.day, line.weekly.mon)
                   THEN [s1 EXCEPT
                           !.weekly_used = used_from_left(line.weekly.left),
                           !.weekly_reset = this_year_at(line.weekly.day, line.weekly.mon,
                                                         line.weekly.hh, line.weekly.mm)]
                   ELSE [s1 EXCEPT !.exc = "ValueError"]
              ELSE s1
    IN  IF s2.exc = "none" /\ ~IsNone(s2.session_used) /\ ~IsNone(s2.weekly_used)
        THEN [s2 EXCEPT !.done = TRUE]
        ELSE s2

RECURSIVE history_lines_oldest_first(_, _, _, _, _)
\* Faulty variant of history_lines: the tail is not reversed.
history_lines_oldest_first(st, lines, lo, hi, now) ==
    IF lo > hi THEN st
    ELSE IF lo = hi THEN history_line(st, lines[hi], now)
    ELSE LET mid == (lo + hi) \div 2
             lower == history_lines_oldest_first(st, lines, lo, mid, now)
         IN  IF lower.exc # "none" \/ lower.done THEN lower
             ELSE history_lines_oldest_first(lower, lines, mid + 1, hi, now)

RECURSIVE history_lines(_, _, _, _, _)
\* codex.py 183, 191: `for line in lines` over the reversed tail: the lines
\* hi down to lo, one after the other (the upper half of the range, then
\* the lower half), until an exception or the break at 207-208
history_lines(st, lines, lo, hi, now) ==
    IF lo > hi THEN st
    ELSE IF lo = hi THEN history_line(st, lines[hi], now)
    ELSE LET mid == (lo + hi) \div 2
             upper == history_lines(st, lines, mid + 1, hi, now)
         IN  IF upper.exc # "none" \/ upper.done THEN upper
             ELSE history_lines(upper, lines, lo, mid, now)

\* codex.py 178-219: CodexAdapter._parse_from_history; line 182 keeps the
\* last HISTORY_TAIL lines
parse_from_history(history, now) ==
    IF IsNone(history)
    THEN Returns(PartialUsage(None, None, None, None, None,
                 List(<<MsgArg("missing {}", "history.jsonl")>>)))
    ELSE LET st == history_lines(
                 [session_used |-> None, session_reset |-> None,
                  weekly_used |-> None, weekly_reset |-> None,
                  done |-> FALSE, exc |-> "none"],
                 history.lines, Max(1, Len(history.lines) - HISTORY_TAIL + 1),
                 Len(history.lines), now)
             messages == IF IsNone(st.session_used) /\ IsNone(st.weekly_used)
                         THEN <<Msg("unable to parse Codex usage from sessions or history")>>
                         ELSE <<>>
         IN  IF st.exc # "none" THEN Raises(st.exc)
             ELSE Returns(PartialUsage(st.session_used, st.session_reset,
                                       st.weekly_used, st.weekly_reset,
                                       None, List(messages)))

\* codex.py 31-38: CodexAdapter._parse
codex_parse(files, now) ==
    LET session_partial == parse_from_sessions(files.codex_sessions, now)
    IN  IF session_partial.exc # "none" THEN session_partial
        ELSE IF ~IsNone(session_partial.value.session_used_pct) THEN session_partial
        ELSE parse_from_history(files.codex_history, now)

---------------------------------------------------------------------------
(* providers/claude.py: the project logs                                   *)
(*                                                                         *)
(* A log line is what the loop sees of it:                                 *)
(*   [k |-> "bad", has_usage]     not JSON                                 *)
(*   [k |-> "scalar", has_usage]  JSON, but not an object                  *)
(*   [k |-> "obj", has_usage, ts, type, message, requestId, uuid]          *)
(* has_usage: the text contains "usage" in double quotes.  ts as in the    *)
(* Codex logs.  message is None, Str(..) (not an object) or [t |->         *)
(* "message", role, usage, id, model]; usage is None, Str(..) or [t |->    *)
(* "usage", input_tokens, output_tokens]; ids are None or Str(..).         *)

\* claude.py 264-276: _usage_total_tokens
usage_total_tokens(usage) ==
    IF usage.t # "usage" THEN 0
    ELSE (IF usage.input_tokens.t = "num" THEN usage.input_tokens.n ELSE 0)
       + (IF usage.output_tokens.t = "num" THEN usage.output_tokens.n ELSE 0)

\* claude.py 279-289: _is_primary_assistant_usage_entry
is_primary_assistant_usage_entry(obj) ==
    /\ obj.type = "assistant"
    /\ obj.message.t = "message"
    /\ obj.message.role = "assistant"
    /\ obj.message.usage.t = "usage"

\* Faulty variant of entry_identity: the uuid is preferred to the message id.
entry_identity_uuid_first(obj) ==
    LET rid == obj.requestId
        mid == IF obj.message.t = "message" THEN obj.message.id ELSE None
        uid == obj.uuid
    IN  IF Truthy(rid) /\ Truthy(uid) THEN <<rid.s, uid.s>>
        ELSE IF Truthy(rid) /\ Truthy(mid) THEN <<rid.s, mid.s>>
        ELSE IF Truthy(uid) THEN <<uid.s>>
        ELSE IF Truthy(mid) THEN <<mid.s>>
        ELSE <<>>

\* claude.py 292-304: _entry_identity; <<>> stands for None, <<a, b>> for the
\* string "a:b" and <<a>> for "a"
entry_identity(obj) ==
    LET rid == obj.requestId
        mid == IF obj.message.t = "message" THEN obj.message.id ELSE None
        uid == obj.uuid
    IN  IF Truthy(rid) /\ Truthy(mid) THEN <<rid.s, mid.s>>
        ELSE IF Truthy(rid) /\ Truthy(uid) THEN <<rid.s, uid.s>>
        ELSE IF Truthy(mid) THEN <<mid.s>>
        ELSE IF Truthy(uid) THEN <<uid.s>>
        ELSE <<>>

claude_scan0 ==
    [seen_ids |-> {}, historical_entries |-> <<>>, per_file_entries |-> <<>>,
     weekly_tokens |-> 0, exc |-> "none"]

\* claude.py 113-139: one line of a project log; the entries of the file
\* being read are the last element of per_file_entries
claude_line(st, line, seven_days_ago) ==
    IF st.exc # "none" THEN st
    ELSE IF ~line.has_usage THEN st
    ELSE IF line.k = "bad" THEN st
    ELSE IF line.k = "scalar" THEN [st EXCEPT !.exc = "AttributeError"]
    ELSE LET t == parse_ts(line.ts)
         IN  IF t.exc # "none" THEN [st EXCEPT !.exc = t.exc]
             ELSE IF IsNone(t.value) THEN st
             ELSE IF ~is_primary_assistant_usage_entry(line) THEN st
             ELSE LET entry_id == entry_identity(line)
                      tokens == usage_total_tokens(line.message.usage)
                      model == IF line.message.model = [t |-> "absent"]
                               THEN Str("unknown") ELSE line.message.model
                      e == [ts |-> t.value, tokens |-> tokens, model |-> model]
                      n == Len(st.per_file_entries)
                  IN  IF entry_id = <<>> \/ entry_id \in st.seen_ids THEN st
                      ELSE IF tokens <= 0
                           THEN [st EXCEPT !.seen_ids = @ \cup {entry_id}]
                      ELSE [st EXCEPT
                              !.seen_ids = @ \cup {entry_id},
                              !.historical_entries = Append(@, e),
                              !.per_file_entries[n].entries = Append(@, e),
                              !.weekly_tokens =
                                  IF DtLe(seven_days_ago, t.value) THEN @ + tokens ELSE @]

RECURSIVE claude_lines(_, _, _, _)
\* claude.py 113: for line in fh
claude_lines(st, lines, i, seven_days_ago) ==
    IF i > Len(lines) THEN st
    ELSE claude_lines(claude_line(st, lines[i], seven_days_ago), lines, i + 1, seven_days_ago)

RECURSIVE claude_files(_, _, _, _)
\* claude.py 108-141: every candidate file, in the order rglob gave them; a
\* file that cannot be opened keeps its empty entry list
claude_files(st, candidates, i, seven_days_ago) ==
    IF i > Len(candidates) \/ st.exc # "none" THEN st
    ELSE LET f == candidates[i]
             st0 == [st EXCEPT !.per_file_entries =
                        Append(@, [name |-> f.name, entries |-> <<>>])]
             st1 == IF f.readable THEN claude_lines(st0, f.lines, 1, seven_days_ago)
                    ELSE st0
         IN  claude_files(st1, candidates, i + 1, seven_days_ago)

\* claude.py 100-103: the *.jsonl files outside any subagents directory
claude_candidates(projects) ==
    SelectSeq(projects.files, LAMBDA f : ~f.subagent)

RECURSIVE SumTokens(_, _)
SumTokens(entries, i) ==
    IF i > Len(entries) THEN 0 ELSE entries[i].tokens + SumTokens(entries, i + 1)

\* e[0] >= five_hours_ago
recent_entries(entries, five_hours_ago) ==
    SelectSeq(entries, LAMBDA e : DtLe(five_hours_ago, e.ts))

\* max((e[0] for e in entries), default=datetime.min): None stands for datetime.min
latest_ts(entries) ==
    IF entries = <<>> THEN None
    ELSE LET i == CHOOSE i \in 1..Len(entries) :
                    \A j \in 1..Len(entries) : DtLe(entries[j].ts, entries[i].ts)
         IN  entries[i].ts

\* the tuple comparison score > best_score of (recent_tokens, latest_ts)
score_gt(a, b) ==
    \/ a.recent_tokens > b.recent_tokens
    \/ /\ a.recent_tokens = b.recent_tokens
       /\ ~IsNone(a.latest_ts)
       /\ (IsNone(b.latest_ts) \/ DtLt(b.latest_ts, a.latest_ts))

file_score(f, five_hours_ago) ==
    [recent_tokens |-> SumTokens(recent_entries(f.entries, five_hours_ago), 1),
     latest_ts |-> latest_ts(f.entries)]

RECURSIVE pick_active_from(_, _, _, _)
pick_active_from(per_file, i, best, five_hours_ago) ==
    IF i > Len(per_file) THEN best
    ELSE pick_active_from(per_file, i + 1,
             IF score_gt(file_score(per_file[i], five_hours_ago),
                         file_score(per_file[best], five_hours_ago))
             THEN i ELSE best,
             five_hours_ago)

\* Faulty variant of pick_active_session_file: the file read last is taken.
pick_active_session_file_last(per_file, five_hours_ago) == Len(per_file)

\* claude.py 321-339: _pick_active_session_file, as the index of the file
pick_active_session_file(per_file, five_hours_ago) ==
    pick_active_from(per_file, 2, 1, five_hours_ago)

\* Faulty variant of sort_by_ts: the entries stay in the order they were read.
sort_by_ts_unsorted(entries) == entries

RECURSIVE sort_by_ts(_)
\* claude.py 146: historical_entries.sort(key=lambda x: x[0]), a stable sort
sort_by_ts(entries) ==
    IF entries = <<>> THEN <<>>
    ELSE LET i == CHOOSE i \in 1..Len(entries) :
                    /\ \A j \in 1..Len(entries) : DtLe(entries[i].ts, entries[j].ts)
                    /\ \A j \in 1..(i - 1) : entries[j].ts # entries[i].ts
         IN  <<entries[i]>> \o
             sort_by_ts(SubSeq(entries, 1, i - 1) \o SubSeq(entries, i + 1, Len(entries)))

RECURSIVE segment_end_strict(_, _, _)
\* Faulty variant of segment_end: an entry exactly at start + 5 hours is left out.
segment_end_strict(entries, i, end) ==
    IF i <= Len(entries) /\ DtLt(entries[i].ts, end)
    THEN segment_end_strict(entries, i + 1, end) ELSE i

RECURSIVE segment_end(_, _, _)
\* claude.py 162-165: the inner while: the first index past the segment
segment_end(entries, i, end) ==
    IF i <= Len(entries) /\ DtLe(entries[i].ts, end)
    THEN segment_end(entries, i + 1, end) ELSE i

RECURSIVE segment_sessions(_, _)
\* claude.py 155-166: the sliding 5-hour segmentation from index i on
segment_sessions(entries, i) ==
    IF i > Len(entries) THEN <<>>
    ELSE LET start == entries[i].ts
             j == segment_end(entries, i, DtAddMinutes(start, FIVE_HOURS))
         IN  <<[start |-> start,
                token_total |-> SumTokens(SubSeq(entries, i, j - 1), 1),
                msg_total |-> j - i]>>
             \o segment_sessions(entries, j)

\* Faulty variant of segment_step: i is incremented once more after the
\* inner loop, so the entry after each segment is passed over.
segment_step_skipping(entries, seg) ==
    LET start == entries[seg.i + 1].ts
        j == segment_end(entries, seg.i + 1, DtAddMinutes(start, FIVE_HOURS))
    IN  [i |-> j,
         sessions |-> Append(seg.sessions,
             [start |-> start,
              token_total |-> SumTokens(SubSeq(entries, seg.i + 1, j - 1), 1),
              msg_total |-> j - 1 - seg.i])]

\* claude.py 158-166: one iteration of the outer while, from the loop's i
\* (0-based) and sessions to their values after sessions.append
segment_step(entries, seg) ==
    LET start == entries[seg.i + 1].ts
        j == segment_end(entries, seg.i + 1, DtAddMinutes(start, FIVE_HOURS))
    IN  [i |-> j - 1,
         sessions |-> Append(seg.sessions,
             [start |-> start,
              token_total |-> SumTokens(SubSeq(entries, seg.i + 1, j - 1), 1),
              msg_total |-> j - 1 - seg.i])]

RECURSIVE sorted_values(_)
sorted_values(values) ==
    IF values = <<>> THEN <<>>
    ELSE LET i == CHOOSE i \in 1..Len(values) : \A j \in 1..Len(values) : values[i] <= values[j]
         IN  <<values[i]>> \o
             sorted_values(SubSeq(values, 1, i - 1) \o SubSeq(values, i + 1, Len(values)))

\* Faulty variant of p90: the nearest-rank (ceiling) estimate.
p90_nearest_rank(values) ==
    IF values = <<>> THEN None
    ELSE LET s == sorted_values(values)
         IN  Num(s[Max(1, (9 * Len(s) + 9) \div 10)])

\* claude.py 307-318: _p90; statistics.quantiles(values, n=10,
\* method="inclusive")[8] interpolates between the order statistics j and
\* j + 1 (0-based), where j, delta = divmod(9 * (len - 1), 10)
p90(values) ==
    IF values = <<>> THEN None
    ELSE IF Len(values) = 1 THEN Num(values[1])
    ELSE LET s == sorted_values(values)
             m == Len(s) - 1
             j == (9 * m) \div 10
             delta == (9 * m) % 10
         IN  RatNorm(s[j + 1] * (10 - delta) + s[j + 2] * delta, 10)

---------------------------------------------------------------------------
(* An adapter's collect: _parse, then merge_usage.  The result carries the *)
(* exception if one propagated, else the record and the config object as   *)
(* the call left it.                                                       *)

collect_merge(nm, parsed, c, now) ==
    IF parsed.exc # "none" THEN [exc |-> parsed.exc, ret |-> None, cfg |-> c]
    ELSE LET m == merge_usage(nm, parsed.value, c, now)
         IN  [exc |-> "none", ret |-> m.ret, cfg |-> m.cfg]

\* codex.py 27-29: CodexAdapter.collect
codex_collect(files, c, now) == collect_merge("codex", codex_parse(files, now), c, now)

\* Faulty variant of gemini_collect: the partial result carries no advisory.
gemini_collect_silent(c, now) ==
    collect_merge("gemini",
        Returns(PartialUsage(None, None, None, None, None, List(<<>>))), c, now)

\* gemini.py 11-13: GeminiAdapter.collect
gemini_collect(c, now) ==
    collect_merge("gemini",
        Returns(PartialUsage(None, None, None, None, None,
            List(<<Msg("Gemini parser is not implemented in v2; use manual fields")>>))),
        c, now)

---------------------------------------------------------------------------
(* datetime.isoformat and datetime.fromisoformat                           *)
(*                                                                         *)
(* The text "YYYY-MM-DDTHH:MM:SS[.ffffff]" is kept as its parts: the       *)
(* minute, the seconds, and the six-digit fraction, which isoformat writes *)
(* only when it is not zero.                                               *)

\* datetime.isoformat: the fraction is written only when it is not zero
isoformat(dt) ==
    [t |-> "iso", min |-> dt.min, sec |-> dt.us \div 1000000,
     frac |-> IF dt.us % 1000000 = 0 THEN <<>> ELSE <<dt.us % 1000000>>]

fromisoformat(s) ==
    Dt(s.min, s.sec * 1000000 + (IF s.frac = <<>> THEN 0 ELSE s.frac[1]))

\* round-half-even of n/d, for n >= 0
RoundDiv(n, d) ==
    LET q == n \div d
        r == n % d
    IN  IF 2 * r > d \/ (2 * r = d /\ q % 2 = 1) THEN q + 1 ELSE q

\* Faulty variant of add_minutes: the delta is subtracted (taken to the
\* minute above).
add_minutes_back(now, x) == Dt(now.min - (x.n \div x.d) - 1, now.us)

\* now + timedelta(minutes=x) for a rational x >= 0: the delta is rounded to
\* whole microseconds, here in the steps minute, second, millisecond
add_minutes(now, x) ==
    LET whole == x.n \div x.d
        r1 == x.n % x.d
        secs == (r1 * 60) \div x.d
        r2 == (r1 * 60) % x.d
        ms == (r2 * 1000) \div x.d
        r3 == (r2 * 1000) % x.d
        us == RoundDiv(r3 * 1000, x.d)
        total == now.us + secs * 1000000 + ms * 1000 + us
    IN  Dt(now.min + whole + total \div UsPerMinute, total % UsPerMinute)

---------------------------------------------------------------------------
(* providers/claude.py: the statistical engine and _parse                  *)

DEFAULT_SESSION_TOKEN_LIMIT == 300000
DEFAULT_MESSAGE_LIMIT == 200

RECURSIVE model_tokens(_, _, _)
\* claude.py 189-191: tokens per model, in order of first appearance
model_tokens(entries, i, acc) ==
    IF i > Len(entries) THEN acc
    ELSE LET e == entries[i]
             at == { k \in 1..Len(acc) : acc[k].k = e.model }
         IN  model_tokens(entries, i + 1,
                 IF at = {} THEN Append(acc, [k |-> e.model, v |-> e.tokens])
                 ELSE [k \in 1..Len(acc) |->
                          IF k \in at THEN [acc[k] EXCEPT !.v = @ + e.tokens] ELSE acc[k]])

\* claude.py 176-224: the prediction, the percentages and the PartialUsage,
\* from the values s computed for the active session
claude_partial(st, now, s) ==
    LET session_file == s.session_file
        current_entries == s.current_entries
        session_tokens == s.session_tokens
        token_limit_p90 == s.token_limit_p90
        message_limit_p90 == s.message_limit_p90
        session_reset_at == s.session_reset_at
        burn_rate == s.burn_rate
        remaining_tokens == s.remaining_tokens
        session_messages == Len(current_entries)
        predicted_runout ==
            IF burn_rate.n > 0 /\ remaining_tokens.n > 0
            THEN add_minutes(now, RatDiv(remaining_tokens, burn_rate))
            ELSE None
        weekly_limit_est == RatMul(token_limit_p90, Rat(168, 5))
        weekly_pct == IF weekly_limit_est.n > 0
                      THEN RatMul(RatDiv(Num(st.weekly_tokens), weekly_limit_est), Num(100))
                      ELSE Num(0)
        session_pct == IF token_limit_p90.n > 0
                       THEN RatMul(RatDiv(Num(session_tokens), token_limit_p90), Num(100))
                       ELSE Num(0)
        message_pct == IF message_limit_p90.n > 0
                       THEN RatMul(RatDiv(Num(session_messages), message_limit_p90), Num(100))
                       ELSE Num(0)
        by_model == model_tokens(current_entries, 1, <<>>)
        model_distribution ==
            IF session_tokens > 0
            THEN [k \in 1..Len(by_model) |->
                    [k |-> by_model[k].k,
                     v |-> Round1(RatMul(RatNorm(by_model[k].v, session_tokens), Num(100)))]]
            ELSE <<>>
        details == Dict(<<Item("dynamic_limits", Dict(<<
            Item("session_tokens", Num(session_tokens)),
            Item("session_messages", Num(session_messages)),
            Item("weekly_tokens", Num(st.weekly_tokens)),
            Item("token_limit_p90", IntOf(token_limit_p90)),
            Item("message_limit_p90", IntOf(message_limit_p90)),
            Item("token_usage_pct", Round1(session_pct)),
            Item("message_usage_pct", Round1(message_pct)),
            Item("burn_rate_tokens_per_min", Round1(burn_rate)),
            Item("predicted_tokens_runout_at",
                 IF Truthy(predicted_runout) THEN isoformat(predicted_runout) ELSE None),
            Item("session_reset_at", isoformat(session_reset_at)),
            Item("model_distribution", Dict(model_distribution))
            >>))>>)
        derived == MsgArg("derived Claude metrics from current session file: {}",
                          st.per_file_entries[session_file].name)
    IN  IF session_tokens <= 0 /\ st.weekly_tokens <= 0
        THEN PartialUsage(None, None, None, None, None,
                 List(<<derived, Msg("no usage tokens found in project logs")>>))
        ELSE PartialUsage(session_pct, session_reset_at, weekly_pct,
                 DtAddMinutes(now, SEVEN_DAYS), details, List(<<derived>>))

\* claude.py 152-177: the active session's totals, reset time and burn rate
claude_session(st, now, session_file, current_entries, token_limit_p90, message_limit_p90) ==
    LET session_tokens == SumTokens(current_entries, 1)
        current_start == IF current_entries # <<>> THEN current_entries[1].ts ELSE now
        elapsed_minutes == RatMax(Num(1), MinutesBetween(now, current_start))
        burn_rate == IF session_tokens > 0
                     THEN RatDiv(Num(session_tokens), elapsed_minutes) ELSE Num(0)
    IN  claude_partial(st, now,
            [session_file |-> session_file,
             current_entries |-> current_entries,
             session_tokens |-> session_tokens,
             token_limit_p90 |-> token_limit_p90,
             message_limit_p90 |-> message_limit_p90,
             session_reset_at |-> DtAddMinutes(current_start, FIVE_HOURS),
             burn_rate |-> burn_rate,
             remaining_tokens |-> RatMax(Num(0), RatSub(token_limit_p90, Num(session_tokens)))])

\* claude.py 143-224: what _parse_from_projects derives from the entries read
claude_metrics(st, now) ==
    LET five_hours_ago == DtAddMinutes(now, -FIVE_HOURS)
        session_file == pick_active_session_file(st.per_file_entries, five_hours_ago)
        sessions == segment_sessions(sort_by_ts(st.historical_entries), 1)
    IN  claude_session(st, now, session_file,
            recent_entries(st.per_file_entries[session_file].entries, five_hours_ago),
            PyOr(p90([i \in 1..Len(sessions) |-> sessions[i].token_total]),
                 Num(DEFAULT_SESSION_TOKEN_LIMIT)),
            PyOr(p90([i \in 1..Len(sessions) |-> sessions[i].msg_total]),
                 Num(DEFAULT_MESSAGE_LIMIT)))

\* claude.py 86-224: ClaudeAdapter._parse_from_projects
parse_from_projects(projects, now) ==
    IF IsNone(projects)
    THEN Returns(PartialUsage(None, None, None, None, None,
                 List(<<MsgArg("missing {}", "projects")>>)))
    ELSE LET candidates == claude_candidates(projects)
         IN  IF candidates = <<>>
             THEN Returns(PartialUsage(None, None, None, None, None,
                  List(<<Msg("no Claude session files found in ~/.claude/projects")>>)))
             ELSE LET st == claude_files(claude_scan0, candidates, 1,
                                         DtAddMinutes(now, -SEVEN_DAYS))
                  IN  IF st.exc # "none" THEN Raises(st.exc)
                      ELSE IF st.historical_entries = <<>>
                           THEN Returns(PartialUsage(None, None, None, None, None,
                                List(<<Msg("no usage tokens found in project logs")>>)))
                           ELSE Returns(claude_metrics(st, now))

\* claude.py 236-241: _pick_float over the values found at the candidate
\* paths (None where a path does not resolve)
pick_float(found) ==
    IF \E i \in 1..Len(found) : found[i].t = "num"
    THEN found[CHOOSE i \in 1..Len(found) :
                 found[i].t = "num" /\ \A j \in 1..(i - 1) : found[j].t # "num"]
    ELSE None

\* claude.py 244-252: _pick_dt: the first string fromisoformat accepts; a
\* string value is [t |-> "text", ts |-> the timestamp it spells]
pick_dt(found) ==
    LET ok(i) == found[i].t = "text" /\ found[i].ts.k = "at"
    IN  IF \E i \in 1..Len(found) : ok(i)
        THEN Dt(found[CHOOSE i \in 1..Len(found) :
                        ok(i) /\ \A j \in 1..(i - 1) : ~ok(j)].ts.at, 0)
        ELSE None

\* Faulty variant of claude_from_stats: `project value or stats value` for the
\* percentages too, so a derived 0.0 gives way to the stats cache.
claude_from_stats_truthy(stats, pp) ==
    LET session_used == PyOr(pp.session_used_pct, pick_float(stats.session_pct))
        weekly_used == PyOr(pp.weekly_used_pct, pick_float(stats.weekly_pct))
    IN  PartialUsage(session_used,
                     PyOr(pp.session_reset_at, pick_dt(stats.session_reset)),
                     weekly_used,
                     PyOr(pp.weekly_reset_at, pick_dt(stats.weekly_reset)),
                     IF Truthy(pp.details) THEN pp.details ELSE None,
                     List(PyOr(pp.messages, List(<<>>)).l \o
                          (IF IsNone(session_used) /\ IsNone(weekly_used)
                           THEN <<Msg("unable to infer Claude usage from stats-cache.json or project logs")>>
                           ELSE <<>>)))

\* claude.py 37-84: the project-log result completed from the stats cache
claude_from_stats(stats, pp) ==
    LET details == IF Truthy(pp.details) THEN pp.details ELSE None
        session_used == IF ~IsNone(pp.session_used_pct) THEN pp.session_used_pct
                        ELSE pick_float(stats.session_pct)
        weekly_used == IF ~IsNone(pp.weekly_used_pct) THEN pp.weekly_used_pct
                       ELSE pick_float(stats.weekly_pct)
        session_reset == PyOr(pp.session_reset_at, pick_dt(stats.session_reset))
        weekly_reset == PyOr(pp.weekly_reset_at, pick_dt(stats.weekly_reset))
        messages == PyOr(pp.messages, List(<<>>)).l \o
            (IF IsNone(session_used) /\ IsNone(weekly_used)
             THEN <<Msg("unable to infer Claude usage from stats-cache.json or project logs")>>
             ELSE <<>>)
    IN  PartialUsage(session_used, session_reset, weekly_used, weekly_reset,
                     details, List(messages))

\* claude.py 28-84: ClaudeAdapter._parse.  The stats cache is None (no
\* file), [k |-> "invalid"] (json.loads rejects the text, empty included) or
\* [k |-> "json", session_pct, weekly_pct, session_reset, weekly_reset]: for
\* each field the values at its three candidate paths.
claude_parse(fs, now) ==
    IF IsNone(fs.claude_stats)
    THEN Returns(PartialUsage(None, None, None, None, None,
                 List(<<MsgArg("missing {}", "stats-cache.json")>>)))
    ELSE IF fs.claude_stats.k = "invalid" THEN Raises("JSONDecodeError")
    ELSE LET project == parse_from_projects(fs.claude_projects, now)
         IN  IF project.exc # "none" THEN project
             ELSE Returns(claude_from_stats(fs.claude_stats, project.value))

\* claude.py 24-26: ClaudeAdapter.collect
claude_collect(files, c, now) == collect_merge("claude", claude_parse(files, now), c, now)

---------------------------------------------------------------------------
(* The input files the adapters read *)

At(m) == [k |-> "at", at |-> m]
BadStr == [k |-> "badstr"]
NonStr == [k |-> "nonstr"]

File(lines) == [t |-> "file", lines |-> lines]
Dir(entries) == [t |-> "dir", files |-> entries]
LogFile(nm, lines) == [name |-> nm, readable |-> TRUE, subagent |-> FALSE, lines |-> lines]
Sessions(today, yesterday) == [t |-> "dir", today |-> today, yesterday |-> yesterday]

Window(used, resets, minutes) ==
    [k |-> "dict", used_percent |-> used, resets_at |-> resets, window_minutes |-> minutes]
RateLimits(primary, secondary) == [t |-> "rl", primary |-> primary, secondary |-> secondary]
Payload(type, model, rl, info) ==
    [k |-> "dict", type |-> type, model |-> model, rate_limits |-> rl, info |-> info]

CodexObj(ts, type, payload) == [k |-> "obj", ts |-> ts, type |-> type, payload |-> payload]
NotJson == [k |-> "bad", has_usage |-> TRUE]
Scalar == [k |-> "scalar", has_usage |-> TRUE]

\* {"timestamp": ts, "type": "session_meta", "payload": {"model": model}}
SessionMeta(ts, model) == CodexObj(ts, "session_meta", Payload(None, model, None, None))
\* {"timestamp": ts, "type": "event_msg", "payload": {"type": "token_count",
\*  "rate_limits": rl, "info": {"model_context_window": cw, "last_token_usage": ..}}}
TokenCount(ts, rl, cw, inp) ==
    CodexObj(ts, "event_msg",
        Payload(Str("token_count"), None, rl,
            [t |-> "dict", rate_limits |-> None, model_context_window |-> cw,
             last_token_usage |->
                 Dict(<<Item("input_tokens", Num(inp)), Item("output_tokens", Num(20))>>)]))

BothWindows == RateLimits(Window(Num(40), Num(7200), Num(300)),
                          Window(Num(10), Num(86400), Num(10080)))

\* a history line: the 5h pattern's groups, and the weekly pattern's
HistoryLine(five, weekly) ==
    [five |-> IF five = <<>> THEN None
              ELSE [t |-> "match", left |-> five[1], hh |-> five[2], mm |-> five[3]],
     weekly |-> IF weekly = <<>> THEN None
                ELSE [t |-> "match", left |-> weekly[1], hh |-> weekly[2], mm |-> weekly[3],
                      day |-> weekly[4], mon |-> weekly[5]]]

\* {"timestamp": ts, "type": "assistant", "requestId": "req", "message":
\*  {"id": id, "role": "assistant", "model": model, "usage": {"input_tokens": tokens}}}
Entry(ts, id, model, tokens) ==
    [k |-> "obj", has_usage |-> TRUE, ts |-> ts, type |-> "assistant",
     requestId |-> Str("req"), uuid |-> None,
     message |-> [t |-> "message", role |-> "assistant", id |-> Str(id), model |-> model,
                  usage |-> [t |-> "usage", input_tokens |-> Num(tokens),
                             output_tokens |-> Num(0)]]]

Stats(k, sp, wp, sr, wr) ==
    [t |-> "file", k |-> k, session_pct |-> sp, weekly_pct |-> wp,
     session_reset |-> sr, weekly_reset |-> wr]
EmptyStats == Stats("json", <<None, None, None>>, <<None, None, None>>,
                    <<None, None, None>>, <<None, None, None>>)


---------------------------------------------------------------------------
(* snapshot.py: the JSON text of a snapshot and reading it back            *)
(*                                                                         *)
(* A JSON text is kept as the document it spells:                          *)
(*   [j |-> "null"], [j |-> "number", n, d], [j |-> "string", s],          *)
(*   [j |-> "array", l], [j |-> "object", items]                           *)
(* where the items of an object are [k |-> string, v |-> value] in the     *)
(* order written.  A snapshot file is None (no such file), [k |-> "empty"] *)
(* (opened for writing, nothing written yet) or [k |-> "text", doc].       *)

JString(s) == [j |-> "string", s |-> s]

\* snapshot.py 26-29: _json_default, reached for datetime values only
json_default(obj) == isoformat(obj)

\* json.dumps coerces a dict key that is not a string: None becomes "null",
\* a whole number its decimal text
key_text(k) ==
    IF IsNone(k) THEN Str("null")
    ELSE IF k.t = "num" THEN Str(ToString(k.n))
    ELSE k

RECURSIVE dumps(_)
\* snapshot.py 33: json.dumps(..., default=_json_default) of one value
dumps(v) ==
    CASE v.t = "none" -> [j |-> "null"]
      [] v.t = "num"  -> [j |-> "number", n |-> v.n, d |-> v.d]
      [] v.t = "str"  -> JString(v)
      [] v.t = "iso"  -> JString(v)
      [] v.t = "dt"   -> JString(json_default(v))
      [] v.t = "list" -> [j |-> "array", l |-> [i \in 1..Len(v.l) |-> dumps(v.l[i])]]
      [] v.t = "dict" ->
            [j |-> "object",
             items |-> [i \in 1..Len(v.items) |->
                          [k |-> key_text(v.items[i].k), v |-> dumps(v.items[i].v)]]]

\* json.loads of an object: a repeated key keeps its first position and its
\* last value
object_pairs(items) ==
    LET first(i) == \A h \in 1..(i - 1) : items[h].k # items[i].k
        last_of(i) == CHOOSE h \in i..Len(items) :
                         /\ items[h].k = items[i].k
                         /\ \A g \in (h + 1)..Len(items) : items[g].k # items[i].k
        at == SelectSeq([i \in 1..Len(items) |-> i], first)
    IN  [n \in 1..Len(at) |-> [k |-> items[at[n]].k, v |-> items[last_of(at[n])].v]]

RECURSIVE loads(_)
\* snapshot.py 49: json.loads of one value
loads(jv) ==
    CASE jv.j = "null"   -> None
      [] jv.j = "number" -> Rat(jv.n, jv.d)
      [] jv.j = "string" -> jv.s
      [] jv.j = "array"  -> List([i \in 1..Len(jv.l) |-> loads(jv.l[i])])
      [] jv.j = "object" ->
            LET pairs == object_pairs(jv.items)
            IN  Dict([i \in 1..Len(pairs) |-> [k |-> pairs[i].k, v |-> loads(pairs[i].v)]])

UsageSnapshot(generated_at, records) ==
    [generated_at |-> generated_at, providers |-> records]

\* snapshot.py 33: asdict of one ProviderSnapshot, dumped; the three enums
\* are str subclasses and are written as their values
provider_to_json(p) ==
    [provider |-> JString(Str(p.provider)),
     status |-> JString(Str(p.status)),
     session_used_pct |-> dumps(p.session_used_pct),
     session_reset_at |-> dumps(p.session_reset_at),
     weekly_used_pct |-> dumps(p.weekly_used_pct),
     weekly_reset_at |-> dumps(p.weekly_reset_at),
     source |-> JString(Str(p.source)),
     messages |-> [j |-> "array", l |-> [i \in 1..Len(p.messages) |-> JString(p.messages[i])]],
     details |-> dumps(p.details),
     updated_at |-> dumps(p.updated_at)]

\* snapshot.py 32-33: snapshot_to_json
snapshot_to_json(s) ==
    [generated_at |-> dumps(s.generated_at),
     providers |-> [i \in 1..Len(s.providers) |-> provider_to_json(s.providers[i])]]

\* snapshot.py 59, 61: fromisoformat(item[key]) if item.get(key) else None
read_reset(jv) ==
    IF Truthy(loads(jv)) THEN fromisoformat(loads(jv)) ELSE None

\* snapshot.py 53-67: one item of raw["providers"]
provider_from_json(item) ==
    ProviderSnapshot(
        loads(item.provider).s,
        loads(item.status).s,
        loads(item.session_used_pct),
        read_reset(item.session_reset_at),
        loads(item.weekly_used_pct),
        read_reset(item.weekly_reset_at),
        loads(item.source).s,
        loads(item.messages).l,
        loads(item.details),
        fromisoformat(loads(item.updated_at)))

\* snapshot.py 48-69: read_snapshot
read_snapshot(file) ==
    IF IsNone(file) THEN Raises("FileNotFoundError")
    ELSE IF file.k = "empty" THEN Raises("JSONDecodeError")
    ELSE LET raw == file.doc
         IN  Returns(UsageSnapshot(
                 fromisoformat(loads(raw.generated_at)),
                 [i \in 1..Len(raw.providers) |-> provider_from_json(raw.providers[i])]))

---------------------------------------------------------------------------
(* tray/bridge.py: the one-line summary the tray shows *)

\* bridge.py 21-24: _fmt; the percentage to the nearest whole number
fmt(value) ==
    IF IsNone(value) THEN Str("-") ELSE [t |-> "pct", n |-> RoundDiv(value.n, value.d)]

\* bridge.py 8-18: summary_line; the text is kept as its parts, one per provider
summary_line(file) ==
    IF IsNone(file) THEN Returns(Str("UsageDash: snapshot missing"))
    ELSE LET snap == read_snapshot(file)
         IN  IF snap.exc # "none" THEN snap
             ELSE IF snap.value.providers = <<>>
                  THEN Returns(Str("UsageDash: no providers"))
                  ELSE Returns(List([i \in 1..Len(snap.value.providers) |->
                          [provider |-> snap.value.providers[i].provider,
                           S |-> fmt(snap.value.providers[i].session_used_pct),
                           W |-> fmt(snap.value.providers[i].weekly_used_pct)]]))

---------------------------------------------------------------------------
(* The clock *)

\* Time passes.
Tick ==
    /\ clock < MaxClock
    /\ clock' = clock + 1
    /\ UNCHANGED <<mergeVars, pipeVars, lineVars, engineVars>>

\* The variables of a scenario that is not running keep these values.
MergeIdle ==
    /\ name = "codex"
    /\ partial = None
    /\ cfg = None
    /\ partial0 = None
    /\ cfg0 = None
    /\ results = <<>>

PipeIdle ==
    /\ disk = None
    /\ config = None
    /\ pc = "idle"
    /\ providers = <<>>
    /\ invoked = {}
    /\ raised = "none"
    /\ snapshot = None
    /\ state_file = None
    /\ mirror_file = None
    /\ readback = None
    /\ icon = None
    /\ tray = "idle"
    /\ refresh_loop = "idle"

LinesIdle ==
    /\ adapter = "none"
    /\ log = <<>>
    /\ removed = 0
    /\ with_line = None
    /\ without_line = None

EngineIdle ==
    /\ tree = <<>>
    /\ tree_was = <<>>
    /\ analysis = None
    /\ analysis_was = None
    /\ series = <<>>
    /\ estimate = None
    /\ segmentation = None

---------------------------------------------------------------------------
(* SpecMerge: merge_usage called repeatedly on the same three objects *)

MergeInit ==
    LET PartialInputs ==
            LET pct == {None, Num(0), Num(50)}
                reset == {None, Dt(30, 0)}
            IN  {None} \cup
                { PartialUsage(su, sr, wu, wr, d, m) :
                    su \in pct, sr \in reset, wu \in pct, wr \in reset,
                    d \in {None, Dict(<<Item("codex_limits", Num(1))>>)},
                    m \in {None, List(<<MsgArg("parsed from Codex session: {}", "rollout-a.jsonl")>>)} }
        CfgInputs ==
            LET pct == {None, Num(0), Num(70)}
                reset == {None, Dt(90, 0)}
            IN  { ProviderConfig(TRUE, "hybrid", ManualFields(su, sr, wu, wr)) :
                    su \in pct, sr \in reset, wu \in pct, wr \in reset }
    IN  /\ clock = 0
        /\ name \in ProviderName
        /\ partial \in PartialInputs
        /\ cfg \in CfgInputs
        /\ partial0 = partial
        /\ cfg0 = cfg
        /\ results = <<>>
        /\ PipeIdle
        /\ LinesIdle
        /\ EngineIdle

\* One call merge_usage(name, partial, cfg).
MergeCall ==
    /\ Len(results) < MaxCalls
    /\ LET r == merge_usage(name, partial, cfg, Now(clock))
       IN  /\ results' = Append(results, r.ret)
           /\ partial' = r.partial
           /\ cfg' = r.cfg
    /\ UNCHANGED <<clock, name, partial0, cfg0>>
    /\ UNCHANGED <<pipeVars, lineVars, engineVars>>

MergeNext == Tick \/ MergeCall

SpecMerge == MergeInit /\ [][MergeNext]_vars

---------------------------------------------------------------------------
(* Properties of merge_usage, stated over the inputs as handed in          *)
(* (partial0, cfg0) and the snapshots returned (results)                   *)

UsageFields ==
    {"session_used_pct", "session_reset_at", "weekly_used_pct", "weekly_reset_at"}
PctFields == {"session_used_pct", "weekly_used_pct"}
ResetFields == {"session_reset_at", "weekly_reset_at"}

ParsedField(f) == IF partial0 = None THEN None ELSE partial0[f]
ManualField(f) == cfg0.manual[f]
ParsedPresent == \E f \in UsageFields : ParsedField(f) # None
ManualPresent == \E f \in UsageFields : ManualField(f) # None
Returned == { results[i] : i \in 1..Len(results) }

\* C1: each of the four output fields is the parsed value when that parsed
\* value is present (0.0 included) and the manual value otherwise, whatever
\* the other three fields hold, also when partial is None.
C1_PerFieldPrecedence ==
    \A r \in Returned : \A f \in UsageFields :
        r[f] = IF ParsedField(f) # None THEN ParsedField(f) ELSE ManualField(f)

\* A parsed 0.0 beat a manual 70 while the weekly reset came from the manual side.
C1_Witness ==
    /\ Len(results) > 0
    /\ ParsedField("session_used_pct") = Num(0)
    /\ ManualField("session_used_pct") = Num(70)
    /\ results[1].session_used_pct = Num(0)
    /\ ParsedField("weekly_reset_at") = None
    /\ results[1].weekly_reset_at = Dt(90, 0)

\* C2: source is "mixed" exactly when some parsed and some manual field are
\* present, "parsed" exactly when a parsed field is present and no manual one,
\* and "manual" when a manual field is present and no parsed one.
C2_SourceClassification ==
    \A r \in Returned :
        /\ (r.source = "mixed") <=> (ParsedPresent /\ ManualPresent)
        /\ (r.source = "parsed") <=> (ParsedPresent /\ ~ManualPresent)
        /\ (ManualPresent /\ ~ParsedPresent) => r.source = "manual"

\* "mixed" from two different fields: only a parsed session percentage and
\* only a manual weekly reset.
C2_Witness ==
    /\ Len(results) > 0
    /\ results[1].source = "mixed"
    /\ \A f \in UsageFields : ParsedField(f) # None <=> f = "session_used_pct"
    /\ \A f \in UsageFields : ManualField(f) # None <=> f = "weekly_reset_at"

\* C3 as stated: with no parsed and no manual field the record is never
\* labelled "manual", and its status is ERROR.
C3_NeverManualWhenEmpty ==
    \A r \in Returned :
        (~ParsedPresent /\ ~ManualPresent) => (r.source # "manual" /\ r.status = "error")

\* C3 as the code has it: with no parsed and no manual field the source label
\* falls through to "manual", and the status is ERROR.
C3_EmptyIsManualError ==
    \A r \in Returned :
        (~ParsedPresent /\ ~ManualPresent) => (r.source = "manual" /\ r.status = "error")

\* A PartialUsage object that carries messages but no field, merged with an
\* empty manual configuration.
C3_Witness ==
    /\ Len(results) > 0
    /\ partial0 # None
    /\ ~ParsedPresent /\ ~ManualPresent
    /\ results[1].messages # <<>>

\* C4: status is ERROR iff all four reconciled fields are absent, OK iff a
\* percentage and a reset time are present (of any window), PARTIAL otherwise;
\* exactly one of the three.
C4_StatusClassification ==
    \A r \in Returned :
        LET hasPct == \E f \in PctFields : r[f] # None
            hasReset == \E f \in ResetFields : r[f] # None
            allAbsent == \A f \in UsageFields : r[f] = None
        IN  /\ r.status \in {"ok", "partial", "error"}
            /\ (r.status = "error") <=> allAbsent
            /\ (r.status = "ok") <=> (hasPct /\ hasReset)
            /\ (r.status = "partial") <=> (~allAbsent /\ ~(hasPct /\ hasReset))

\* OK from a session percentage and a weekly reset, and no other field.
C4_Witness ==
    /\ Len(results) > 0
    /\ results[1].status = "ok"
    /\ results[1].session_used_pct # None
    /\ results[1].session_reset_at = None
    /\ results[1].weekly_used_pct = None
    /\ results[1].weekly_reset_at # None

\* C5 as stated: two calls with the same three inputs return snapshots equal
\* in every field, whenever they are made.
C5_EqualInEveryField ==
    \A r1 \in Returned : \A r2 \in Returned : r1 = r2

\* C5 amended: two calls with the same three inputs return snapshots equal in
\* every field but updated_at, which is the clock reading of the call.
C5_EqualButUpdatedAt ==
    \A r1 \in Returned : \A r2 \in Returned :
        /\ [r1 EXCEPT !.updated_at = None] = [r2 EXCEPT !.updated_at = None]
        /\ \E c \in 0..clock : r1.updated_at = Now(c)

\* Two calls at two moments, the record carrying an advisory of the merge.
C5_Witness ==
    /\ Len(results) = 2
    /\ results[1].updated_at # results[2].updated_at
    /\ results[2].status = "error"
    /\ Len(results[2].messages) = 2

\* C6: merge_usage leaves the ProviderConfig, its ManualFields and the
\* PartialUsage as they were; the advisory it appends is in the snapshot's
\* messages and not in partial.messages.
C6_InputsUnchanged ==
    Len(results) > 0 =>
        /\ partial = partial0
        /\ cfg = cfg0
        /\ \A r \in Returned :
              (r.status = "error" /\ partial # None /\ partial.messages # None) =>
                  /\ r.messages = partial.messages.l \o <<MSG_CONFIGURE_MANUAL>>
                  /\ \A i \in 1..Len(partial.messages.l) :
                        partial.messages.l[i] # MSG_CONFIGURE_MANUAL

\* An advisory was appended for a PartialUsage that has a message list.
C6_Witness ==
    /\ Len(results) > 0
    /\ partial # None
    /\ partial.messages # None
    /\ results[1].messages = partial.messages.l \o <<MSG_RESET_MISSING>>

---------------------------------------------------------------------------
(* Spec: a refresh cycle.  build_snapshot collects the enabled providers   *)
(* in order and stamps the result; write_snapshot_files writes the state   *)
(* file and then the mirror; the tray bridge reads either file at any time.*)

Files(sessions, history, stats, projects, mirror_writable) ==
    [codex_sessions |-> sessions, codex_history |-> history,
     claude_stats |-> stats, claude_projects |-> projects,
     mirror_writable |-> mirror_writable]

\* Faulty variant of should_collect: the enabled flag is not looked at.
should_collect_always(c) == TRUE

\* snapshot.py 16, 18, 20: `if cfg.providers[name].enabled`
should_collect(c) == c.enabled

\* The state before build_snapshot runs.  FilesInputs, the states of the
\* files.  Codex: every state of the sessions directory without a history
\* log, and every state of the history log without a sessions directory.
\* Claude: every state of the project logs beside an empty stats cache, and
\* every state of the stats cache with and without project logs.  Each
\* beside one good state of the other provider's files; the mirror location
\* is unwritable in one of them.  CodexLogs and ClaudeLogs are the contents
\* of a Codex session file and of a Claude project log.  ConfigInputs, the
\* configuration: every choice of enabled flags without manual fields, and
\* all three providers enabled with a manual session percentage of 0.0.
Init ==
    LET FilesInputs ==
            LET CodexLogs ==
                    { <<>>,
                      <<SessionMeta(At(-30), Str("gpt-x")), TokenCount(At(-20), BothWindows, Num(1000), 100)>>,
                      <<NotJson, TokenCount(At(-20), BothWindows, None, 100)>>,
                      <<Scalar>>,
                      <<TokenCount(At(-20), RateLimits([k |-> "null"], BothWindows.secondary), Num(1000), 100)>>,
                      <<TokenCount(At(-20), RateLimits([k |-> "absent"], BothWindows.secondary), Num(1000), 100)>>,
                      <<TokenCount(BadStr, BothWindows, Num(1000), 100)>> }
                ClaudeLogs ==
                    { <<>>,
                      <<Entry(At(-10), "m1", Str("opus"), 500)>>,
                      <<Entry(At(-10), "m1", None, 500)>>,
                      <<Entry(At(-10), "m1", [t |-> "absent"], 500), Entry(At(-5), "m2", Str("opus"), 300)>>,
                      <<Scalar>>,
                      <<NotJson, Entry(At(-10), "m1", Str("opus"), 500)>> }
                GoodCodexSessions ==
                    Sessions(Dir({LogFile(1, <<TokenCount(At(-20), BothWindows, Num(1000), 100)>>)}),
                             None)
                GoodClaudeProjects == Dir(<<LogFile(1, <<Entry(At(-10), "m1", Str("opus"), 500)>>)>>)
                sessions == {None, Sessions(None, None)}
                            \cup { Sessions(Dir({LogFile(1, l)}), None) : l \in CodexLogs }
                history == { None, File(<<>>),
                             File(<<HistoryLine(<<70, 14, 30>>, <<80, 9, 0, 12, 3>>)>>),
                             File(<<HistoryLine(<<70, 25, 99>>, <<>>)>>) }
                stats == { None, Stats("invalid", <<>>, <<>>, <<>>, <<>>), EmptyStats,
                           Stats("json", <<None, Num(25), None>>, <<Num(5), None, None>>,
                                 <<[t |-> "text", ts |-> At(200)], None, None>>,
                                 <<[t |-> "text", ts |-> BadStr], None, None>>) }
                projects == {None, Dir(<<>>)} \cup { Dir(<<LogFile(1, l)>>) : l \in ClaudeLogs }
            IN  { Files(s, None, EmptyStats, GoodClaudeProjects, TRUE) : s \in sessions }
                \cup { Files(None, h, EmptyStats, GoodClaudeProjects, TRUE) : h \in history }
                \cup { Files(GoodCodexSessions, None, EmptyStats, pr, TRUE) : pr \in projects }
                \cup { Files(GoodCodexSessions, None, st, pr, TRUE) :
                         st \in stats, pr \in {None, GoodClaudeProjects} }
                \cup { Files(GoodCodexSessions, None, EmptyStats, GoodClaudeProjects, FALSE) }
        ConfigInputs ==
            LET Providers(e1, e2, e3, m) ==
                    [codex |-> ProviderConfig(e1, "hybrid", m),
                     claude |-> ProviderConfig(e2, "hybrid", m),
                     gemini |-> ProviderConfig(e3, "manual", m)]
            IN  { Providers(e1, e2, e3, ManualFields(None, None, None, None)) :
                    e1 \in BOOLEAN, e2 \in BOOLEAN, e3 \in BOOLEAN }
                \cup { Providers(TRUE, TRUE, TRUE, ManualFields(Num(0), None, None, None)) }
    IN  /\ clock = 0
        /\ disk \in FilesInputs
        /\ config \in ConfigInputs
        /\ pc = "codex"
        /\ providers = <<>>
        /\ invoked = {}
        /\ raised = "none"
        /\ snapshot = None
        /\ state_file = None
        /\ mirror_file = None
        /\ readback = None
        /\ icon = None
        /\ tray = "idle"
        /\ refresh_loop = "idle"
        /\ MergeIdle
        /\ LinesIdle
        /\ EngineIdle

\* snapshot.py 16-21: one provider's turn in build_snapshot: the adapter's
\* collect where the provider is enabled
Collect(nm, next) ==
    /\ pc = nm
    /\ IF should_collect(config[nm])
       THEN LET r == CASE nm = "codex"  -> codex_collect(disk, config[nm], Now(clock))
                        [] nm = "claude" -> claude_collect(disk, config[nm], Now(clock))
                        [] nm = "gemini" -> gemini_collect(config[nm], Now(clock))
            IN  /\ invoked' = invoked \cup {nm}
                /\ IF r.exc # "none"
                   THEN /\ raised' = r.exc
                        /\ pc' = "raised"
                        /\ UNCHANGED <<providers, config>>
                   ELSE /\ providers' = Append(providers, r.ret)
                        /\ config' = [config EXCEPT ![nm] = r.cfg]
                        /\ pc' = next
                        /\ UNCHANGED raised
       ELSE /\ pc' = next
            /\ UNCHANGED <<providers, invoked, raised, config>>
    /\ UNCHANGED <<clock, disk, snapshot, state_file, mirror_file, readback>>
    /\ UNCHANGED <<icon, tray, refresh_loop>>
    /\ UNCHANGED <<mergeVars, lineVars, engineVars>>

CollectCodex == Collect("codex", "claude")
CollectClaude == Collect("claude", "gemini")
CollectGemini == Collect("gemini", "stamp")

\* snapshot.py 23: the generation timestamp and the return
Stamp ==
    /\ pc = "stamp"
    /\ snapshot' = UsageSnapshot(Now(clock), providers)
    /\ pc' = "built"
    /\ UNCHANGED <<clock, disk, config, providers, invoked, raised,
                   state_file, mirror_file, readback>>
    /\ UNCHANGED <<icon, tray, refresh_loop>>
    /\ UNCHANGED <<mergeVars, lineVars, engineVars>>

\* snapshot.py 37-41: write_text opens the state file, which truncates it
OpenState ==
    /\ pc = "built"
    /\ state_file' = [t |-> "file", k |-> "empty"]
    /\ pc' = "state_open"
    /\ UNCHANGED <<clock, disk, config, providers, invoked, raised,
                   snapshot, mirror_file, readback>>
    /\ UNCHANGED <<icon, tray, refresh_loop>>
    /\ UNCHANGED <<mergeVars, lineVars, engineVars>>

\* snapshot.py 41: the body reaches the state file
WriteState ==
    /\ pc = "state_open"
    /\ state_file' = [t |-> "file", k |-> "text", doc |-> snapshot_to_json(snapshot)]
    /\ pc' = "state_done"
    /\ UNCHANGED <<clock, disk, config, providers, invoked, raised,
                   snapshot, mirror_file, readback>>
    /\ UNCHANGED <<icon, tray, refresh_loop>>
    /\ UNCHANGED <<mergeVars, lineVars, engineVars>>

\* snapshot.py 43-45: the mirror's directory is made and the file opened;
\* where that location cannot be written the OSError propagates
OpenMirror ==
    /\ pc = "state_done"
    /\ IF disk.mirror_writable
       THEN /\ mirror_file' = [t |-> "file", k |-> "empty"]
            /\ pc' = "mirror_open"
            /\ UNCHANGED raised
       ELSE /\ raised' = "OSError"
            /\ pc' = "raised"
            /\ UNCHANGED mirror_file
    /\ UNCHANGED <<clock, disk, config, providers, invoked, snapshot, state_file, readback>>
    /\ UNCHANGED <<icon, tray, refresh_loop>>
    /\ UNCHANGED <<mergeVars, lineVars, engineVars>>

\* snapshot.py 45: the body reaches the mirror; write_snapshot_files returns
WriteMirror ==
    /\ pc = "mirror_open"
    /\ mirror_file' = [t |-> "file", k |-> "text", doc |-> snapshot_to_json(snapshot)]
    /\ pc' = "written"
    /\ UNCHANGED <<clock, disk, config, providers, invoked, raised,
                   snapshot, state_file, readback>>
    /\ UNCHANGED <<icon, tray, refresh_loop>>
    /\ UNCHANGED <<mergeVars, lineVars, engineVars>>

\* tray/bridge.py 8-18: the tray's summary_line on one of the two files
Read ==
    /\ \E f \in {state_file, mirror_file} : readback' = summary_line(f)
    /\ UNCHANGED <<clock, disk, config, pc, providers, invoked, raised,
                   snapshot, state_file, mirror_file>>
    /\ UNCHANGED <<icon, tray, refresh_loop>>
    /\ UNCHANGED <<mergeVars, lineVars, engineVars>>

\* app.py 78-80: the next refresh_dashboard; the interval timer fires after
\* time has passed
Refresh ==
    /\ pc = "written"
    /\ clock < MaxClock
    /\ clock' = clock + 1
    /\ pc' = "codex"
    /\ providers' = <<>>
    /\ invoked' = {}
    /\ snapshot' = None
    /\ UNCHANGED <<disk, config, raised, state_file, mirror_file, readback>>
    /\ UNCHANGED <<icon, tray, refresh_loop>>
    /\ UNCHANGED <<mergeVars, lineVars, engineVars>>

Next ==
    \/ Tick
    \/ CollectCodex
    \/ CollectClaude
    \/ CollectGemini
    \/ Stamp
    \/ OpenState
    \/ WriteState
    \/ OpenMirror
    \/ WriteMirror
    \/ Read
    \/ Refresh

Spec == Init /\ [][Next]_vars

---------------------------------------------------------------------------
(* SpecCollect: the refresh cycle with one provider enabled, over the      *)
(* states of that provider's files and of its manual fields.               *)

\* Codex: no session data of three kinds, or a rate-limit record, beside a
\* history log with one 5h line (0 to 150 per cent left; clock times from
\* 00:00 to 23:59, and 25:99), with that line between others, with a weekly
\* line too, with older and newer matches of both patterns, with an older
\* line of clock time 25:99 behind a line that matches both patterns, with
\* HISTORY_TAIL + 1 lines of which the first matches or the first two,
\* without lines, or missing.  Or session directories whose record has no
\* primary window, or with several files and several records (some without
\* a usable timestamp) today and yesterday, beside a history log with both
\* patterns or none.  Claude: every state of the stats
\* cache beside project logs that are missing, empty, without a qualifying
\* line, recent, older than 5 hours, or older than 7 days, without manual
\* fields and with one.  Gemini: every choice of manual fields, without
\* files and with them.
CollectInit ==
    LET none == ManualFields(None, None, None, None)
        off == ProviderConfig(FALSE, "hybrid", none)
        recent == Entry(At(-10), "m1", Str("opus"), 500)
        sessions ==
            { None, Sessions(None, None),
              Sessions(Dir({LogFile(1, <<SessionMeta(At(-30), Str("gpt-x"))>>)}), None),
              Sessions(Dir({LogFile(1, <<TokenCount(At(-20), BothWindows, Num(1000), 100)>>)}),
                       None) }
        limits(p) == RateLimits(Window(Num(p), Num(7200), Num(300)),
                                Window(Num(p + 1), Num(86400), Num(10080)))
        rec(at, p) == TokenCount(at, limits(p), Num(1000), 100)
        more_sessions ==
            { Sessions(Dir({LogFile(1, <<TokenCount(At(-20),
                                RateLimits([k |-> "absent"], BothWindows.secondary),
                                Num(1000), 100)>>)}), None),
              Sessions(Dir({LogFile(1, <<rec(At(-50), 50)>>),
                            LogFile(2, <<rec(At(-40), 40), rec(At(-60), 60),
                                         rec(BadStr, 99)>>)}),
                       Dir({LogFile(3, <<rec(At(-10), 10)>>)})),
              Sessions(Dir({LogFile(2, <<SessionMeta(At(-30), Str("gpt-x")),
                                         rec(BadStr, 99)>>),
                            LogFile(1, <<rec(At(-60), 60), rec(At(-50), 50)>>)}),
                       Dir({LogFile(3, <<rec(At(-10), 10)>>)})),
              Sessions(Dir({LogFile(1, <<>>)}),
                       Dir({LogFile(1, <<rec(At(-1500), 20)>>)})),
              Sessions(None, Dir({LogFile(1, <<rec(At(-1400), 30)>>),
                                  LogFile(2, <<rec(At(-1500), 20)>>)})) }
        both == HistoryLine(<<70, 14, 30>>, <<80, 9, 0, 12, 3>>)
        history ==
            { File(<<HistoryLine(<<left, 14, 30>>, <<>>)>>) : left \in {0, 30, 100, 150} }
            \cup { File(<<HistoryLine(<<30, at[1], at[2]>>, <<>>)>>) :
                     at \in {<<0, 0>>, <<23, 59>>, <<25, 99>>} }
            \cup { File(<<HistoryLine(<<>>, <<>>), HistoryLine(<<30, 14, 30>>, <<>>),
                          HistoryLine(<<>>, <<>>)>>),
                   File(<<both>>),
                   File(<<HistoryLine(<<90, 10, 0>>, <<60, 8, 0, 2, 1>>),
                          HistoryLine(<<>>, <<80, 9, 0, 12, 3>>),
                          HistoryLine(<<30, 14, 30>>, <<>>)>>),
                   File(<<HistoryLine(<<30, 25, 99>>, <<>>), both>>),
                   File([i \in 1..(HISTORY_TAIL + 1) |->
                           IF i = 1 THEN both ELSE HistoryLine(<<>>, <<>>)]),
                   File([i \in 1..(HISTORY_TAIL + 1) |->
                           IF i = 1 THEN HistoryLine(<<10, 10, 0>>, <<>>)
                           ELSE IF i = 2 THEN HistoryLine(<<>>, <<80, 9, 0, 12, 3>>)
                           ELSE HistoryLine(<<>>, <<>>)]),
                   File(<<>>), None }
        stats ==
            { None, Stats("invalid", <<>>, <<>>, <<>>, <<>>), EmptyStats,
              Stats("json", <<None, Num(25), None>>, <<Num(5), None, None>>,
                    <<[t |-> "text", ts |-> At(200)], None, None>>,
                    <<[t |-> "text", ts |-> BadStr], None, None>>),
              Stats("json", <<None, None, None>>, <<None, None, Num(60)>>,
                    <<None, None, None>>, <<None, [t |-> "text", ts |-> At(9000)], None>>) }
        projects ==
            { None, Dir(<<>>), Dir(<<LogFile(1, <<>>)>>),
              Dir(<<LogFile(1, <<[recent EXCEPT !.type = "user"]>>)>>),
              Dir(<<LogFile(1, <<recent>>)>>),
              Dir(<<LogFile(1, <<Entry(At(-400), "m1", Str("opus"), 500)>>)>>),
              Dir(<<LogFile(1, <<Entry(At(-20000), "m1", Str("opus"), 500)>>)>>) }
    IN  /\ clock = 0
        /\ \/ /\ \/ \E s \in sessions, h \in history :
                       disk = Files(s, h, None, None, TRUE)
                 \/ \E s \in more_sessions, h \in {None, File(<<both>>)} :
                       disk = Files(s, h, None, None, TRUE)
              /\ config = [codex |-> ProviderConfig(TRUE, "hybrid", none),
                           claude |-> off, gemini |-> off]
           \/ /\ \E st \in stats, pr \in projects :
                    disk = Files(None, None, st, pr, TRUE)
              /\ \E su \in {None, Num(40)} :
                    config = [codex |-> off, gemini |-> off,
                              claude |-> ProviderConfig(TRUE, "hybrid",
                                            ManualFields(su, None, None, None))]
           \/ /\ disk \in { Files(None, None, None, None, TRUE),
                            Files(None, File(<<HistoryLine(<<30, 14, 30>>, <<>>)>>),
                                  EmptyStats, Dir(<<LogFile(1, <<recent>>)>>), TRUE) }
              /\ \E su \in {None, Num(0), Num(40)}, sr \in {None, Dt(500, 0)},
                    wu \in {None, Num(40)}, wr \in {None, Dt(9000, 0)} :
                    config = [codex |-> off, claude |-> off,
                              gemini |-> ProviderConfig(TRUE, "manual",
                                            ManualFields(su, sr, wu, wr))]
        /\ pc = "codex"
        /\ providers = <<>>
        /\ invoked = {}
        /\ raised = "none"
        /\ snapshot = None
        /\ state_file = None
        /\ mirror_file = None
        /\ readback = None
        /\ icon = None
        /\ tray = "idle"
        /\ refresh_loop = "idle"
        /\ MergeIdle
        /\ LinesIdle
        /\ EngineIdle

SpecCollect == CollectInit /\ [][Next]_vars

---------------------------------------------------------------------------
(* FairSpecTray: run_tray beside the dashboard's refresh cycle.  run_tray  *)
(* has made the icon and started the refresh thread (windows_tray.py       *)
(* 22-33) and is about to call icon.run(); the thread is about to test     *)
(* icon.visible for the first time.  The dashboard, another process,       *)
(* builds snapshots and rewrites the two files in place.                   *)

\* windows_tray.py 22-33: a new pystray.Icon is not visible and has the
\* title it was made with; no snapshot has been written yet.
TrayInit ==
    LET none == ManualFields(None, None, None, None)
    IN  /\ clock = 0
        /\ disk = Files(None, None, None, None, TRUE)
        /\ \E e \in BOOLEAN :
              config = [codex |-> ProviderConfig(e, "hybrid", none),
                        claude |-> ProviderConfig(e, "hybrid", none),
                        gemini |-> ProviderConfig(e, "manual", none)]
        /\ pc = "codex"
        /\ providers = <<>>
        /\ invoked = {}
        /\ raised = "none"
        /\ snapshot = None
        /\ state_file = None
        /\ mirror_file = None
        /\ readback = None
        /\ icon = [visible |-> FALSE, title |-> Str("UsageDash")]
        /\ tray = "run"
        /\ refresh_loop = "check"
        /\ MergeIdle
        /\ LinesIdle
        /\ EngineIdle

\* windows_tray.py 34: icon.run() starts the icon's loop; without a setup
\* callback it makes the icon visible
IconRun ==
    /\ tray = "run"
    /\ icon' = [icon EXCEPT !.visible = TRUE]
    /\ tray' = "loop"
    /\ UNCHANGED <<clock, disk, config, pc, providers, invoked, raised, snapshot,
                   state_file, mirror_file, readback, refresh_loop>>
    /\ UNCHANGED <<mergeVars, lineVars, engineVars>>

\* windows_tray.py 24, 34: the Quit item calls icon.stop(): the icon is
\* removed, icon.run() and run_tray return, and the daemon thread ends with
\* the process
Quit ==
    /\ tray = "loop"
    /\ icon' = [icon EXCEPT !.visible = FALSE]
    /\ tray' = "returned"
    /\ refresh_loop' = "ended"
    /\ UNCHANGED <<clock, disk, config, pc, providers, invoked, raised, snapshot,
                   state_file, mirror_file, readback>>
    /\ UNCHANGED <<mergeVars, lineVars, engineVars>>

\* windows_tray.py 28: `while icon.visible`; the loop, and with it the
\* thread, ends when the test fails
RefreshCheck ==
    /\ refresh_loop = "check"
    /\ refresh_loop' = IF icon.visible THEN "refresh" ELSE "ended"
    /\ UNCHANGED <<clock, disk, config, pc, providers, invoked, raised, snapshot,
                   state_file, mirror_file, readback, icon, tray>>
    /\ UNCHANGED <<mergeVars, lineVars, engineVars>>

\* windows_tray.py 29-30: the title becomes summary_line of the mirror, and
\* after the sleep the test is made again; an exception of summary_line is
\* not caught and ends the thread
RefreshTitle ==
    /\ refresh_loop = "refresh"
    /\ LET line == summary_line(mirror_file)
       IN  IF line.exc # "none"
           THEN /\ refresh_loop' = "raised"
                /\ UNCHANGED icon
           ELSE /\ icon' = [icon EXCEPT !.title = line.value]
                /\ refresh_loop' = "check"
    /\ UNCHANGED <<clock, disk, config, pc, providers, invoked, raised, snapshot,
                   state_file, mirror_file, readback, tray>>
    /\ UNCHANGED <<mergeVars, lineVars, engineVars>>

TrayNext ==
    \/ CollectCodex
    \/ CollectClaude
    \/ CollectGemini
    \/ Stamp
    \/ OpenState
    \/ WriteState
    \/ OpenMirror
    \/ WriteMirror
    \/ Refresh
    \/ IconRun
    \/ Quit
    \/ RefreshCheck
    \/ RefreshTitle

\* Both threads of the tray process are scheduled: icon.run() is entered,
\* the test of the loop is made, and summary_line and the sleep return.
FairSpecTray ==
    /\ TrayInit
    /\ [][TrayNext]_vars
    /\ WF_vars(IconRun)
    /\ WF_vars(RefreshCheck)
    /\ WF_vars(RefreshTitle)

---------------------------------------------------------------------------
(* SpecLines: one log file parsed as it is, and with one of its malformed  *)
(* lines taken out                                                         *)

RECURSIVE SeqsUpTo(_, _)
\* the sequences over S of length 1..n
SeqsUpTo(S, n) ==
    IF n = 0 THEN {}
    ELSE LET shorter == SeqsUpTo(S, n - 1)
         IN  { <<x>> : x \in S } \cup shorter
             \cup { Append(s, x) : s \in { q \in shorter : Len(q) = n - 1 }, x \in S }

\* a line json.loads rejects, or whose timestamp is not an ISO-8601 string
malformed(line) ==
    \/ line.k = "bad"
    \/ line.k = "obj" /\ line.ts.k \in {"badstr", "nonstr"}

\* the adapter's _parse when `lines` is the only log file there is
adapter_parse(nm, lines, now) ==
    IF nm = "codex"
    THEN codex_parse(Files(Sessions(Dir({LogFile(1, lines)}), None), None, None, None, TRUE), now)
    ELSE claude_parse(Files(None, None, EmptyStats, Dir(<<LogFile(1, lines)>>), TRUE), now)

\* A log of up to MaxLines lines, drawn from the lines of a Codex session
\* file or from those of a Claude project log.
LinesInit ==
    LET CodexLinePool ==
            { NotJson,
              SessionMeta(BadStr, Str("gpt-x")),
              TokenCount(BadStr, BothWindows, Num(2000), 100),
              TokenCount(NonStr, BothWindows, Num(1000), 100),
              TokenCount(At(-20), BothWindows, Num(1000), 100) }
        ClaudeLinePool ==
            { NotJson,
              Entry(BadStr, "m1", Str("opus"), 500),
              Entry(NonStr, "m2", Str("opus"), 500),
              Entry(At(-10), "m1", Str("opus"), 500),
              Entry(At(-5), "m2", Str("sonnet"), 300) }
    IN  /\ clock = 0
        /\ adapter \in {"codex", "claude"}
        /\ log \in SeqsUpTo(IF adapter = "codex" THEN CodexLinePool ELSE ClaudeLinePool,
                            MaxLines)
        /\ removed = 0
        /\ with_line = None
        /\ without_line = None
        /\ MergeIdle
        /\ PipeIdle
        /\ EngineIdle

\* The adapter parses the file, and the file less one malformed line.
DropLine ==
    /\ removed = 0
    /\ \E i \in 1..Len(log) :
          /\ malformed(log[i])
          /\ removed' = i
          /\ with_line' = adapter_parse(adapter, log, Now(clock))
          /\ without_line' = adapter_parse(adapter,
                 SubSeq(log, 1, i - 1) \o SubSeq(log, i + 1, Len(log)), Now(clock))
    /\ UNCHANGED <<clock, adapter, log>>
    /\ UNCHANGED <<mergeVars, pipeVars, engineVars>>

LinesNext == Tick \/ DropLine

SpecLines == LinesInit /\ [][LinesNext]_vars

---------------------------------------------------------------------------
(* SpecEngine: the Claude statistical engine.  The lines of a project tree *)
(* are read in one order and in a neighbouring order (two adjacent lines   *)
(* exchanged, a line moved across the file boundary, or the two files      *)
(* exchanged); every order of the same lines is reached by a chain of such *)
(* steps, and every order is an initial state.  Separately, _p90 is called *)
(* on a series of per-session totals.                                      *)

\* A tree of two project logs holding up to MaxLines lines: entries 5 hours
\* apart to the minute and one minute more, two lines with the same
\* (requestId, message id) of which one has no tokens, and a line without
\* any identity.  Or no tree, and a series: the ten values 100, ..., 1000 or
\* up to MaxSeries values.
EngineInit ==
    LET pool == { Entry(At(-1000), "m1", Str("opus"), 100),
                  Entry(At(-700), "m2", Str("opus"), 200),
                  Entry(At(-699), "m3", Str("sonnet"), 300),
                  Entry(At(-10), "m4", Str("opus"), 400),
                  Entry(At(-20), "m4", Str("opus"), 0),
                  [Entry(At(-5), "m5", Str("opus"), 50) EXCEPT
                      !.requestId = None, !.message.id = None] }
    IN  /\ clock = 0
        /\ \/ /\ \E lines \in SeqsUpTo(pool, MaxLines) : \E split \in 0..Len(lines) :
                    tree = <<LogFile(1, SubSeq(lines, 1, split)),
                             LogFile(2, SubSeq(lines, split + 1, Len(lines)))>>
              /\ series = <<>>
           \/ /\ tree = <<>>
              /\ series \in {<<>>, [i \in 1..10 |-> 100 * i]}
                             \cup SeqsUpTo({0, 100, 250, 1000}, MaxSeries)
        /\ tree_was = <<>>
        /\ analysis = None
        /\ analysis_was = None
        /\ estimate = None
        /\ segmentation = None
        /\ MergeIdle
        /\ PipeIdle
        /\ LinesIdle

\* claude.py 107-224: the engine reads the tree in the order it had and in a
\* neighbouring order: the deduplicated entries of each file, their weekly
\* sum, the entries sorted by timestamp, the active session's file and
\* entries, the 5-hour segments and, for the new order, the PartialUsage
\* derived from them (None where no entry was read).  The segmentation loop of the new order stands
\* at its entry: i = 0 and no session.
Rearrange ==
    /\ tree # <<>>
    /\ analysis = None
    /\ LET now == Now(clock)
           five_hours_ago == DtAddMinutes(now, -FIVE_HOURS)
           lines == tree[1].lines \o tree[2].lines
           split == Len(tree[1].lines)
           order(l, k) == <<LogFile(1, SubSeq(l, 1, k)), LogFile(2, SubSeq(l, k + 1, Len(l)))>>
           exchanged(i) == [k \in 1..Len(lines) |->
                              IF k = i THEN lines[i + 1]
                              ELSE IF k = i + 1 THEN lines[i] ELSE lines[k]]
           derived(st, full) ==
               [t |-> "analysis",
                per_file_entries |-> st.per_file_entries,
                weekly_tokens |-> st.weekly_tokens,
                historical_entries |-> sort_by_ts(st.historical_entries),
                current_entries |->
                    IF st.historical_entries = <<>> THEN <<>>
                    ELSE recent_entries(
                             st.per_file_entries[
                                 pick_active_session_file(st.per_file_entries,
                                                          five_hours_ago)].entries,
                             five_hours_ago),
                sessions |-> segment_sessions(sort_by_ts(st.historical_entries), 1),
                session_file |->
                    IF st.historical_entries = <<>> THEN 0
                    ELSE pick_active_session_file(st.per_file_entries, five_hours_ago),
                metrics |->
                    IF st.historical_entries = <<>> \/ ~full THEN None
                    ELSE claude_metrics(st, now)]
           engine(files, full) ==
               derived(claude_files(claude_scan0, claude_candidates(Dir(files)), 1,
                                    DtAddMinutes(now, -SEVEN_DAYS)), full)
       IN  /\ tree' \in { order(exchanged(i), split) : i \in 1..(Len(lines) - 1) }
                        \cup { order(lines, k) :
                                 k \in {split - 1, split + 1} \cap (0..Len(lines)) }
                        \cup { <<LogFile(1, tree[2].lines), LogFile(2, tree[1].lines)>> }
           /\ tree_was' = tree
           /\ analysis_was' = engine(tree, FALSE)
           /\ analysis' = engine(tree', TRUE)
    /\ segmentation' = [i |-> 0, sessions |-> <<>>]
    /\ UNCHANGED <<clock, series, estimate>>
    /\ UNCHANGED <<mergeVars, pipeVars, lineVars>>

\* claude.py 170-171: one call of _p90 on the series
Estimate ==
    /\ tree = <<>>
    /\ estimate = None
    /\ estimate' = Returns(p90(series))
    /\ UNCHANGED <<clock, tree, tree_was, analysis, analysis_was, series, segmentation>>
    /\ UNCHANGED <<mergeVars, pipeVars, lineVars>>

\* claude.py 157-166: one iteration of the outer while over the entries
\* sorted by timestamp; the loop is left when i reaches their number
Segment ==
    /\ analysis # None
    /\ segmentation.i < Len(analysis.historical_entries)
    /\ segmentation' = segment_step(analysis.historical_entries, segmentation)
    /\ UNCHANGED <<clock, tree, tree_was, analysis, analysis_was, series, estimate>>
    /\ UNCHANGED <<mergeVars, pipeVars, lineVars>>

EngineNext == Rearrange \/ Estimate \/ Segment

SpecEngine == EngineInit /\ [][EngineNext]_vars

\* The loop runs in the thread that called collect, which keeps running:
\* an iteration that can be taken is taken.
FairSpecEngine == SpecEngine /\ WF_vars(Segment)

---------------------------------------------------------------------------
(* Properties of the refresh cycle and of the log readers *)

ProviderOrder == <<"codex", "claude", "gemini">>
Enabled == { nm \in ProviderName : config[nm].enabled }
EnabledInOrder == SelectSeq(ProviderOrder, LAMBDA nm : config[nm].enabled)
Built == snapshot # None
BuildRaised == pc = "raised" /\ snapshot = None
NoUsage(p) ==
    /\ p.session_used_pct = None /\ p.session_reset_at = None
    /\ p.weekly_used_pct = None /\ p.weekly_reset_at = None

\* C7: the providers sequence build_snapshot returns is the subsequence of
\* (codex, claude, gemini) whose enabled flag is true, in that order, one
\* record each; collect is never invoked for a disabled provider, and by
\* the time the snapshot is returned it was invoked for every enabled one.
C7_EnabledSubsequence ==
    /\ invoked \subseteq Enabled
    /\ Built =>
          /\ [i \in 1..Len(snapshot.providers) |-> snapshot.providers[i].provider]
                = EnabledInOrder
          /\ invoked = Enabled

\* A snapshot of claude and gemini, in that order, with codex disabled.
C7_Witness ==
    /\ Built
    /\ ~config.codex.enabled /\ config.claude.enabled /\ config.gemini.enabled
    /\ Len(snapshot.providers) = 2
    /\ snapshot.providers[1].provider = "claude"
    /\ snapshot.providers[2].provider = "gemini"
    /\ invoked = {"claude", "gemini"}

\* C8: whatever the state of the input files, build_snapshot returns without
\* raising, with a record for every enabled provider; a record with none of
\* the four usage fields has status ERROR and a non-empty messages list.
C8_NeverRaises ==
    /\ ~BuildRaised
    /\ Built =>
          /\ Len(snapshot.providers) = Cardinality(Enabled)
          /\ \A i \in 1..Len(snapshot.providers) :
                NoUsage(snapshot.providers[i]) =>
                    /\ snapshot.providers[i].status = "error"
                    /\ snapshot.providers[i].messages # <<>>

\* C9: a line that is not JSON, or whose timestamp cannot be parsed,
\* contributes nothing: the adapter's result for the file equals its result
\* for the file with that line removed.
C9_MalformedLineContributesNothing ==
    removed # 0 => with_line = without_line

\* C10: once write_snapshot_files has returned, read_snapshot on the state
\* file and on the mirror file each give a snapshot equal to the one written,
\* field for field.
C10_RoundTrip ==
    pc = "written" =>
        /\ read_snapshot(state_file) = Returns(snapshot)
        /\ read_snapshot(mirror_file) = Returns(snapshot)

\* write_snapshot_files is between its first open and its return.
Writing == pc \in {"state_open", "state_done", "mirror_open"}

\* C11: a summary_line that reads the state file or the mirror while
\* write_snapshot_files is executing obtains a snapshot and does not raise:
\* it never finds an empty, truncated or unparseable file.
C11_ReaderSeesCompleteSnapshot ==
    [][(Writing /\ readback' # readback) => readback'.exc = "none"]_vars

---------------------------------------------------------------------------
(* Properties of the Claude statistical engine *)

\* The lines of the tree in the order the engine reads them.
LinesRead == IF tree = <<>> THEN <<>> ELSE tree[1].lines \o tree[2].lines

\* The identity keys of the lines read that carry tokens.
KeysRead ==
    { entry_identity(LinesRead[i]) :
        i \in { j \in 1..Len(LinesRead) :
                  usage_total_tokens(LinesRead[j].message.usage) > 0 } } \ {<<>>}

\* Every line has an identity key and no two lines share one.
DistinctIds ==
    \A i \in 1..Len(LinesRead) :
        /\ entry_identity(LinesRead[i]) # <<>>
        /\ \A j \in 1..Len(LinesRead) :
              i # j => entry_identity(LinesRead[i]) # entry_identity(LinesRead[j])

RECURSIVE SumOf(_, _)
\* f[1] + ... + f[n]
SumOf(f, n) == IF n = 0 THEN 0 ELSE f[n] + SumOf(f, n - 1)

Analysed == analysis # None

\* The number of entries the engine kept, counted in each of the places
\* they go to: the sorted entries, the per-file lists, the segments.
EntriesSorted == Len(analysis.historical_entries)
EntriesPerFile ==
    SumOf([k \in 1..Len(analysis.per_file_entries) |->
              Len(analysis.per_file_entries[k].entries)],
          Len(analysis.per_file_entries))
EntriesSegmented ==
    SumOf([k \in 1..Len(analysis.sessions) |-> analysis.sessions[k].msg_total],
          Len(analysis.sessions))

\* C12: the lines that share an identity key contribute exactly one entry,
\* whichever files they are in and however often they are repeated, and the
\* lines without a key contribute none: the entries that are sorted, that
\* are kept per file and that are segmented are as many as the distinct
\* keys of the lines that carry tokens, and the active session holds no
\* more than that.
C12_OneEntryPerIdentity ==
    Analysed =>
        /\ EntriesSorted = Cardinality(KeysRead)
        /\ EntriesPerFile = Cardinality(KeysRead)
        /\ EntriesSegmented = Cardinality(KeysRead)
        /\ Len(analysis.current_entries) <= Cardinality(KeysRead)

\* C13: for lines with distinct identities, reading the files and the lines
\* in another order gives the same sequence of segments: the same start,
\* token total and message count each.
C13_SegmentsIndependentOfOrder ==
    (Analysed /\ DistinctIds) => analysis.sessions = analysis_was.sessions

\* Two segments from lines read in another order than before, and not in
\* the order of their timestamps.
C13_Witness ==
    /\ Analysed /\ DistinctIds
    /\ LinesRead # tree_was[1].lines \o tree_was[2].lines
    /\ Len(analysis.sessions) = 2
    /\ analysis.sessions = analysis_was.sessions
    /\ \E i \in 1..(Len(LinesRead) - 1) : LinesRead[i + 1].ts.at < LinesRead[i].ts.at

\* The smallest and the greatest value of the series.
SeriesMin == CHOOSE v \in { series[i] : i \in 1..Len(series) } :
                \A i \in 1..Len(series) : v <= series[i]
SeriesMax == CHOOSE v \in { series[i] : i \in 1..Len(series) } :
                \A i \in 1..Len(series) : series[i] <= v

\* C14: _p90 of the ten values 100, 200, ..., 1000 is 910; of a single value
\* it is that value; of no values it is None; and of any values it lies
\* between the smallest and the greatest of them.
C14_P90 ==
    estimate # None =>
        /\ estimate.exc = "none"
        /\ series = [i \in 1..10 |-> 100 * i] => estimate.value = Num(910)
        /\ Len(series) = 1 => estimate.value = Num(series[1])
        /\ series = <<>> => estimate.value = None
        /\ series # <<>> =>
              /\ RatLe(Num(SeriesMin), estimate.value)
              /\ RatLe(estimate.value, Num(SeriesMax))

\* The estimate for the ten values is 910, strictly between 900 and 1000.
C14_Witness ==
    /\ estimate # None
    /\ series = [i \in 1..10 |-> 100 * i]
    /\ estimate.value = Num(910)

\* The index in the sorted entries of the first entry of segment k.
SegmentFirst(k) ==
    1 + SumOf([m \in 1..(k - 1) |-> analysis.sessions[m].msg_total], k - 1)

\* The indices in the sorted entries of the entries of segment k.
SegmentRun(k) == SegmentFirst(k)..(SegmentFirst(k) + analysis.sessions[k].msg_total - 1)

\* C18: the segments cut the entries sorted by timestamp into consecutive
\* runs, every entry in exactly one; each entry of a segment is no later
\* than the segment's first timestamp + 5 hours; the first entry of the
\* next segment is later than that; each segment's token total and message
\* count are those of its entries.
C18_SegmentsPartition ==
    Analysed =>
        LET E == analysis.historical_entries
            S == analysis.sessions
        IN  /\ \A i \in 1..(Len(E) - 1) : DtLe(E[i].ts, E[i + 1].ts)
            /\ EntriesSegmented = Len(E)
            /\ \A k \in 1..Len(S) :
                  /\ S[k].msg_total >= 1
                  /\ S[k].start = E[SegmentFirst(k)].ts
                  /\ \A i \in SegmentRun(k) :
                        DtLe(E[i].ts, DtAddMinutes(S[k].start, FIVE_HOURS))
                  /\ k > 1 => DtLt(DtAddMinutes(S[k - 1].start, FIVE_HOURS), S[k].start)
                  /\ S[k].token_total =
                        SumOf([i \in 1..S[k].msg_total |-> E[SegmentFirst(k) + i - 1].tokens],
                              S[k].msg_total)
            /\ SumOf([k \in 1..Len(S) |-> S[k].token_total], Len(S))
                  = SumOf([i \in 1..Len(E) |-> E[i].tokens], Len(E))

\* Two segments: the first ends with an entry exactly 5 hours after its
\* start, the second starts one minute later.
C18_Witness ==
    /\ Analysed
    /\ Len(analysis.sessions) = 2
    /\ analysis.sessions[1].msg_total = 2
    /\ analysis.historical_entries[2].ts =
          DtAddMinutes(analysis.sessions[1].start, FIVE_HOURS)
    /\ analysis.sessions[2].start =
          DtAddMinutes(analysis.sessions[1].start, FIVE_HOURS + 1)

---------------------------------------------------------------------------
(* Properties of the adapters' collect *)

\* The provider's record in build_snapshot's list, once collect has returned.
Collected(nm) == \E i \in 1..Len(providers) : providers[i].provider = nm
Record(nm) == providers[CHOOSE i \in 1..Len(providers) : providers[i].provider = nm]

NoManual(nm) == config[nm].manual = ManualFields(None, None, None, None)

\* The lines of the Claude project logs that qualify as entries: assistant
\* records with a timestamp, an assistant message and a usage object.
QualifyingOnDisk ==
    IF disk.claude_projects = None THEN {}
    ELSE { q \in UNION { { <<f, i>> : i \in 1..Len(disk.claude_projects.files[f].lines) } :
                           f \in 1..Len(disk.claude_projects.files) } :
             LET line == disk.claude_projects.files[q[1]].lines[q[2]]
             IN  /\ line.k = "obj"
                 /\ line.ts.k = "at"
                 /\ line.type = "assistant"
                 /\ line.message.t = "message"
                 /\ line.message.role = "assistant"
                 /\ line.message.usage.t = "usage" }

\* The minute of a qualifying line's timestamp.
MinuteOf(q) == disk.claude_projects.files[q[1]].lines[q[2]].ts.at

\* C15: when the Claude project-log directory holds no qualifying entry and
\* the configuration has no manual field, collect returns a record with
\* status ERROR and a non-empty messages list, whatever the state of the
\* stats cache.
C15_ErrorWithoutEntries ==
    (config.claude.enabled /\ disk.claude_projects # None
        /\ QualifyingOnDisk = {} /\ NoManual("claude"))
    => /\ raised = "none"
       /\ Collected("claude") =>
             /\ Record("claude").status = "error"
             /\ Record("claude").messages # <<>>

\* The Codex session directories hold no rate-limit record.
NoSessionData ==
    \/ disk.codex_sessions = None
    \/ \A d \in {disk.codex_sessions.today, disk.codex_sessions.yesterday} :
          d # None => \A f \in d.files : \A i \in 1..Len(f.lines) :
                         f.lines[i].k = "obj" /\ f.lines[i].payload.rate_limits = None

\* The lines of the history log that match the 5h pattern.
FiveHourLines ==
    IF disk.codex_history = None THEN {}
    ELSE { i \in 1..Len(disk.codex_history.lines) : disk.codex_history.lines[i].five # None }

\* The history log's only matching line is a 5h line: a percentage left and
\* a clock time.
OnlyFiveHourLine ==
    /\ Cardinality(FiveHourLines) = 1
    /\ \A i \in 1..Len(disk.codex_history.lines) : disk.codex_history.lines[i].weekly = None
    /\ \A i \in FiveHourLines :
          /\ disk.codex_history.lines[i].five.left <= 100
          /\ disk.codex_history.lines[i].five.hh <= 23
          /\ disk.codex_history.lines[i].five.mm <= 59

FiveHourMatch == disk.codex_history.lines[CHOOSE i \in FiveHourLines : TRUE].five

\* C16: without session data and manual fields, a history log whose only
\* matching line is a 5h line with N% left and reset time HH:MM gives
\* session_used_pct = 100 - N, session_reset_at = today at HH:MM, no weekly
\* values, status OK and source "parsed", without the advisory about
\* missing reset timestamps.
C16_HistoryOnly ==
    (config.codex.enabled /\ NoManual("codex") /\ NoSessionData /\ OnlyFiveHourLine)
    => /\ raised = "none"
       /\ Collected("codex") =>
             LET r == Record("codex")
                 today == (r.updated_at.min \div MinutesPerDay) * MinutesPerDay
             IN  /\ r.session_used_pct = Num(100 - FiveHourMatch.left)
                 /\ r.session_reset_at =
                       Dt(today + 60 * FiveHourMatch.hh + FiveHourMatch.mm, 0)
                 /\ r.weekly_used_pct = None
                 /\ r.weekly_reset_at = None
                 /\ r.status = "ok"
                 /\ r.source = "parsed"
                 /\ \A i \in 1..Len(r.messages) : r.messages[i] # MSG_RESET_MISSING

\* 30% left, resets 14:30, between two lines that match nothing: 70% used.
C16_Witness ==
    /\ Collected("codex") /\ NoManual("codex") /\ NoSessionData /\ OnlyFiveHourLine
    /\ Len(disk.codex_history.lines) = 3
    /\ disk.codex_sessions # None
    /\ Record("codex").session_used_pct = Num(70)
    /\ Record("codex").session_reset_at = Dt(14 * 60 + 30, 0)
    /\ Record("codex").status = "ok"

\* C17: the Gemini record's four usage fields are the manual fields, its
\* source is neither "parsed" nor "mixed", its details are empty and its
\* messages contain the advisory that the parser is not implemented,
\* whatever the files and the configuration.
C17_GeminiManualOnly ==
    Collected("gemini") =>
        LET r == Record("gemini")
            m == config.gemini.manual
        IN  /\ r.session_used_pct = m.session_used_pct
            /\ r.session_reset_at = m.session_reset_at
            /\ r.weekly_used_pct = m.weekly_used_pct
            /\ r.weekly_reset_at = m.weekly_reset_at
            /\ r.source \notin {"parsed", "mixed"}
            /\ r.details = Dict(<<>>)
            /\ \E i \in 1..Len(r.messages) :
                  r.messages[i] =
                      Msg("Gemini parser is not implemented in v2; use manual fields")

\* A manual session percentage of 0.0 and a weekly reset time, beside files
\* the other adapters would read.
C17_Witness ==
    /\ Collected("gemini")
    /\ disk.claude_projects # None /\ disk.codex_history # None
    /\ config.gemini.manual.session_used_pct = Num(0)
    /\ config.gemini.manual.weekly_reset_at # None
    /\ Record("gemini").session_used_pct = Num(0)
    /\ Record("gemini").status = "ok"

\* What _parse_from_projects derives from the project logs at the time of
\* the provider's collect.
ProjectDerived == parse_from_projects(disk.claude_projects, Record("claude").updated_at).value

\* C19: without a stats cache, when the project logs hold qualifying
\* entries of the trailing 7 days, the Claude record carries the session
\* and weekly percentages, reset times and details derived from the logs.
C19_ProjectLogsWithoutStats ==
    (Collected("claude") /\ NoManual("claude") /\ disk.claude_stats = None
        /\ \E q \in QualifyingOnDisk :
              Record("claude").updated_at.min - SEVEN_DAYS <= MinuteOf(q))
    => /\ Record("claude").session_used_pct # None
       /\ Record("claude").session_used_pct = ProjectDerived.session_used_pct
       /\ Record("claude").session_reset_at = ProjectDerived.session_reset_at
       /\ Record("claude").weekly_used_pct = ProjectDerived.weekly_used_pct
       /\ Record("claude").weekly_reset_at = ProjectDerived.weekly_reset_at
       /\ Record("claude").details = ProjectDerived.details

\* The value the stats cache holds for a usage field (None without a cache).
StatsValue(f) ==
    IF disk.claude_stats = None THEN None
    ELSE CASE f = "session_used_pct" -> pick_float(disk.claude_stats.session_pct)
           [] f = "weekly_used_pct"  -> pick_float(disk.claude_stats.weekly_pct)
           [] f = "session_reset_at" -> pick_dt(disk.claude_stats.session_reset)
           [] f = "weekly_reset_at"  -> pick_dt(disk.claude_stats.weekly_reset)

\* C20: where _parse combines the stats cache with the project-log
\* analysis, each of the four usage fields it returns is the value derived
\* from the project logs when there is one (0.0 included), and else the
\* value of the stats cache.
C20_PerFieldSourcePrecedence ==
    (Collected("claude") /\ NoManual("claude") /\ disk.claude_stats # None) =>
        \A f \in UsageFields :
            Record("claude")[f] =
                IF ProjectDerived[f] # None THEN ProjectDerived[f] ELSE StatsValue(f)

\* The logs give a session percentage of 0.0 (entries older than 5 hours)
\* and no previous reset; the stats cache holds 25.0.
C20_Witness ==
    /\ Collected("claude") /\ NoManual("claude")
    /\ StatsValue("session_used_pct") = Num(25)
    /\ ProjectDerived.session_used_pct = Num(0)
    /\ Record("claude").session_used_pct = Num(0)
    /\ Record("claude").weekly_used_pct # StatsValue("weekly_used_pct")

---------------------------------------------------------------------------
(* Properties of the messages merge_usage returns *)

ParsedMessages ==
    IF partial0 = None \/ partial0.messages = None THEN <<>> ELSE partial0.messages.l

\* C28: the returned messages are the parsed messages in their order followed
\* by at most one advisory: "reset timestamps missing" exactly when a usage
\* percentage is present and no reset time is, "configure manual fields"
\* exactly when the status is ERROR, and none when the status is OK or when
\* only reset times are present.
C28_MergeAdvisories ==
    \A r \in Returned :
        LET hasPct == \E f \in PctFields : r[f] # None
            hasReset == \E f \in ResetFields : r[f] # None
            n == Len(ParsedMessages)
            advisory == SubSeq(r.messages, n + 1, Len(r.messages))
        IN  /\ Len(r.messages) \in {n, n + 1}
            /\ SubSeq(r.messages, 1, n) = ParsedMessages
            /\ (advisory = <<MSG_RESET_MISSING>>) <=> (hasPct /\ ~hasReset)
            /\ (advisory = <<MSG_CONFIGURE_MANUAL>>) <=> (r.status = "error")
            /\ (r.status = "ok" \/ (hasReset /\ ~hasPct)) => advisory = <<>>

\* A parsed message came back first and the reset advisory after it, from a
\* parsed percentage without any reset time; the second call returned the same.
C28_Witness ==
    /\ Len(results) = MaxCalls
    /\ ParsedMessages # <<>>
    /\ ParsedField("session_used_pct") # None
    /\ \A f \in ResetFields : ParsedField(f) = None /\ ManualField(f) = None
    /\ results[MaxCalls].messages = ParsedMessages \o <<MSG_RESET_MISSING>>

---------------------------------------------------------------------------
(* Properties of the segmentation loop and of the active session *)

\* The loop has been left: i is the number of entries.
SegmentationDone ==
    /\ Analysed
    /\ segmentation.i = Len(analysis.historical_entries)

\* C29: the segmentation loop terminates: every iteration of the outer loop
\* consumes at least one entry, the loop is left with every entry consumed,
\* and N >= 1 entries give between 1 and N segments, none of them empty
\* (they are the segments the engine uses).
C29_SegmentationTerminates ==
    /\ [][(Analysed /\ segmentation' # segmentation)
            => /\ segmentation'.i > segmentation.i
               /\ segmentation'.i <= Len(analysis.historical_entries)]_vars
    /\ Analysed ~>
         /\ SegmentationDone
         /\ segmentation.sessions = analysis.sessions
         /\ \A k \in 1..Len(segmentation.sessions) :
               segmentation.sessions[k].msg_total >= 1
         /\ Len(analysis.historical_entries) >= 1 =>
               /\ Len(segmentation.sessions) >= 1
               /\ Len(segmentation.sessions) <= Len(analysis.historical_entries)

\* Three entries gave two segments: two iterations, the first consuming two
\* entries.
C29_Witness ==
    /\ SegmentationDone
    /\ Len(analysis.historical_entries) = 3
    /\ Len(segmentation.sessions) = 2
    /\ segmentation.sessions[1].msg_total = 2

\* The score of file k of the tree as C26 states it: the tokens of its
\* entries of the trailing 5 hours, and its latest entry timestamp in
\* minutes (below every timestamp for a file without entries).
RecentOf(k) ==
    SelectSeq(analysis.per_file_entries[k].entries,
              LAMBDA e : DtLe(DtAddMinutes(Now(clock), -FIVE_HOURS), e.ts))
RecentTokens(k) == SumOf([m \in 1..Len(RecentOf(k)) |-> RecentOf(k)[m].tokens], Len(RecentOf(k)))
LatestMinute(k) ==
    LET entries == analysis.per_file_entries[k].entries
    IN  IF entries = <<>> THEN -1000000
        ELSE CHOOSE m \in { entries[x].ts.min : x \in 1..Len(entries) } :
                 \A x \in 1..Len(entries) : entries[x].ts.min <= m
PairGreater(k, a) ==
    \/ RecentTokens(k) > RecentTokens(a)
    \/ RecentTokens(k) = RecentTokens(a) /\ LatestMinute(k) > LatestMinute(a)

\* C26: no file has a pair (tokens of the trailing 5 hours, latest entry
\* timestamp) strictly greater than the active file's, and the active
\* session's entries and token total are those of the active file's entries
\* with a timestamp >= now - 5 h and of no other file.
C26_ActiveSessionFile ==
    (Analysed /\ analysis.session_file # 0) =>
        LET a == analysis.session_file
        IN  /\ a \in 1..Len(analysis.per_file_entries)
            /\ \A k \in 1..Len(analysis.per_file_entries) : ~PairGreater(k, a)
            /\ analysis.current_entries = RecentOf(a)
            /\ analysis.metrics.details # None =>
                   analysis.metrics.details.items[1].v.items[1] =
                       Item("session_tokens", Num(RecentTokens(a)))

\* The second file was chosen over the first: both hold entries, only the
\* second has entries of the trailing 5 hours, and the totals are its own.
C26_Witness ==
    /\ Analysed
    /\ analysis.session_file = 2
    /\ analysis.per_file_entries[1].entries # <<>>
    /\ RecentTokens(1) = 0
    /\ RecentTokens(2) = 400
    /\ analysis.metrics.details.items[1].v.items[1].v = Num(400)

\* The entry of the dynamic_limits details under a key.
Limit(key) ==
    LET items == analysis.metrics.details.items[1].v.items
    IN  items[CHOOSE k \in 1..Len(items) : items[k].k = Str(key)].v

\* The token ceiling: the 90th percentile of the segments' token totals, or
\* the default where there is none; and what remains below it.
TokenCeiling ==
    PyOr(p90([k \in 1..Len(analysis.sessions) |-> analysis.sessions[k].token_total]),
         Num(DEFAULT_SESSION_TOKEN_LIMIT))
RemainingTokens == RatMax(Num(0), RatSub(TokenCeiling, Limit("session_tokens")))

\* C27: the remaining tokens are never negative; a predicted runout is
\* reported iff the burn rate is positive (the active session has tokens)
\* and tokens remain below the ceiling; a reported runout is strictly later
\* than the collection time.
C27_PredictedRunout ==
    (Analysed /\ analysis.metrics # None /\ analysis.metrics.details # None) =>
        LET predicted == Limit("predicted_tokens_runout_at")
        IN  /\ RemainingTokens.n >= 0
            /\ (predicted # None) <=>
                   (Limit("session_tokens").n > 0 /\ RemainingTokens.n > 0)
            /\ predicted # None => DtLt(Now(clock), fromisoformat(predicted))

\* 400 tokens in ten minutes under a ceiling of 490: the runout is reported
\* and lies after the collection time.
C27_Witness ==
    /\ Analysed
    /\ analysis.metrics # None
    /\ Limit("session_tokens") = Num(400)
    /\ TokenCeiling = Num(490)
    /\ Limit("predicted_tokens_runout_at") # None
    /\ DtLt(Now(clock), fromisoformat(Limit("predicted_tokens_runout_at")))

---------------------------------------------------------------------------
(* Properties of the Claude engine and of the Codex readers, stated over   *)
(* the files on disk and the record collect returned                       *)

\* The qualifying lines that count towards the 7 days before the collection
\* at minute m: those with tokens and a timestamp in that week.
SignalOnDisk(m) ==
    { q \in QualifyingOnDisk :
        /\ usage_total_tokens(disk.claude_projects.files[q[1]].lines[q[2]].message.usage) > 0
        /\ MinuteOf(q) >= m - SEVEN_DAYS }

\* C21: when no project log holds a qualifying entry, or the active
\* session's tokens and the weekly tokens are both zero, the project-log
\* engine returns a result with at least one advisory and without the four
\* usage fields and the details.  Seen through collect with an empty stats
\* cache and no manual field: the engine's fields and details are the
\* record's, and its messages precede the two that _parse and merge_usage
\* add to a result without percentages.
C21_NoSignal ==
    (config.claude.enabled /\ disk.claude_stats = EmptyStats /\ NoManual("claude"))
    => /\ QualifyingOnDisk = {} => raised = "none"
       /\ (Collected("claude") /\ SignalOnDisk(Record("claude").updated_at.min) = {}) =>
             LET r == Record("claude")
             IN  /\ NoUsage(r)
                 /\ r.details = Dict(<<>>)
                 /\ Len(r.messages) >= 3
                 /\ r.messages[Len(r.messages)] = MSG_CONFIGURE_MANUAL

\* The candidate session files: those of today's directory and of
\* yesterday's; one is newer than another when it is of today and the other
\* of yesterday, or of the same day with the greater name.
DayFiles(day) ==
    IF disk.codex_sessions = None THEN {}
    ELSE IF disk.codex_sessions[day] = None THEN {}
    ELSE disk.codex_sessions[day].files
SessionFiles ==
    { [today |-> TRUE, file |-> f] : f \in DayFiles("today") }
    \cup { [today |-> FALSE, file |-> f] : f \in DayFiles("yesterday") }
NewerFile(a, b) ==
    \/ a.today /\ ~b.today
    \/ a.today = b.today /\ a.file.name > b.file.name

\* The lines of a session file that hold a rate-limit record with a
\* timestamp that can be parsed.
RecordLines(f) ==
    { i \in 1..Len(f.lines) :
        /\ f.lines[i].k = "obj"
        /\ f.lines[i].type = "event_msg"
        /\ f.lines[i].payload.k = "dict"
        /\ f.lines[i].payload.type = Str("token_count")
        /\ f.lines[i].payload.rate_limits # None
        /\ f.lines[i].ts.k = "at" }

\* The newest file that holds such a record, and in it the record with the
\* greatest timestamp.
FilesWithRecord == { c \in SessionFiles : RecordLines(c.file) # {} }
NewestFileWithRecord ==
    (CHOOSE c \in FilesWithRecord : \A o \in FilesWithRecord : o = c \/ NewerFile(c, o)).file
LatestRecordLine ==
    LET f == NewestFileWithRecord
    IN  CHOOSE i \in RecordLines(f) :
            \A j \in RecordLines(f) :
                \/ f.lines[j].ts.at < f.lines[i].ts.at
                \/ f.lines[j].ts.at = f.lines[i].ts.at /\ j <= i
LatestRecord == NewestFileWithRecord.lines[LatestRecordLine].payload.rate_limits

\* A member of a window of the record (None where the window or the member
\* is missing).
WindowValue(w, key) == IF w.k = "dict" THEN w[key] ELSE None
ResetOf(w) ==
    IF WindowValue(w, "resets_at") = None THEN None
    ELSE Dt(WindowValue(w, "resets_at").n \div 60, 0)

FromSessionFile(r) ==
    \E i \in 1..Len(r.messages) : r.messages[i].text = "parsed from Codex session: {}"

\* C22: the history log is used iff no candidate session file holds a
\* rate-limit record; when one does, every field returned comes from that
\* record, also when the record has a secondary window only.
C22_PathSelection ==
    (Collected("codex") /\ NoManual("codex")) =>
        LET r == Record("codex")
        IN  /\ FromSessionFile(r) <=> FilesWithRecord # {}
            /\ FilesWithRecord # {} =>
                  /\ r.session_used_pct = WindowValue(LatestRecord.primary, "used_percent")
                  /\ r.session_reset_at = ResetOf(LatestRecord.primary)
                  /\ r.weekly_used_pct = WindowValue(LatestRecord.secondary, "used_percent")
                  /\ r.weekly_reset_at = ResetOf(LatestRecord.secondary)
                  /\ r.details # Dict(<<>>)

\* C23: the candidate files are taken newest first, today's before
\* yesterday's and in descending order of name; the scan stops at the first
\* file that yields a rate-limit record; the record used is the one with
\* the greatest timestamp in that file, and a record without a timestamp
\* that can be parsed is never used.  Stated for records with a primary
\* used percentage, which are the ones _parse returns.
C23_NewestFileLatestRecord ==
    (Collected("codex") /\ NoManual("codex") /\ FilesWithRecord # {}
        /\ WindowValue(LatestRecord.primary, "used_percent") # None) =>
        LET r == Record("codex")
        IN  /\ FromSessionFile(r)
            /\ r.session_used_pct = LatestRecord.primary.used_percent
            /\ r.weekly_used_pct = LatestRecord.secondary.used_percent
            /\ r.details.items[1].v.items[1] =
                  Item("session_used_pct", LatestRecord.primary.used_percent)

\* Today's directory holds two files and yesterday's one whose record has
\* the greatest timestamp of all; the record used is that of minute -40 in
\* today's file 2, which also holds an older record and one without a
\* timestamp.
C23_Witness ==
    /\ Collected("codex") /\ NoManual("codex")
    /\ Cardinality(FilesWithRecord) = 3
    /\ NewestFileWithRecord.name = 2
    /\ Cardinality(RecordLines(NewestFileWithRecord)) = 2
    /\ Len(NewestFileWithRecord.lines) = 3
    /\ Record("codex").session_used_pct = Num(40)
    /\ Record("codex").weekly_used_pct = Num(41)

\* The lines of the history log that are examined: the last HISTORY_TAIL.
\* Of these, the ones that match the 5h pattern and the weekly pattern, and
\* the newest of a set of lines.
HistoryTail ==
    IF disk.codex_history = None THEN {}
    ELSE { i \in 1..Len(disk.codex_history.lines) :
             i > Len(disk.codex_history.lines) - HISTORY_TAIL }
FiveInTail == { i \in HistoryTail : disk.codex_history.lines[i].five # None }
WeeklyInTail == { i \in HistoryTail : disk.codex_history.lines[i].weekly # None }
NewestOf(S) == CHOOSE i \in S : \A j \in S : j <= i
NewestFive == disk.codex_history.lines[NewestOf(FiveInTail)].five
NewestWeekly == disk.codex_history.lines[NewestOf(WeeklyInTail)].weekly

\* The newest match of each pattern spells a clock time and a date.
NewestMatchesValid ==
    /\ FiveInTail # {} => NewestFive.hh <= 23 /\ NewestFive.mm <= 59
    /\ WeeklyInTail # {} =>
          /\ NewestWeekly.hh <= 23 /\ NewestWeekly.mm <= 59
          /\ NewestWeekly.mon \in 1..12
          /\ NewestWeekly.day \in 1..DaysInMonth[NewestWeekly.mon]

\* The messages of the parser: those of the record but the merge advisory.
ParserMessages(r) ==
    SelectSeq(r.messages, LAMBDA m : m \notin {MSG_RESET_MISSING, MSG_CONFIGURE_MANUAL})

\* The history log is the source: it exists and no session file holds a record.
FromHistory ==
    /\ config.codex.enabled /\ NoManual("codex")
    /\ FilesWithRecord = {}
    /\ disk.codex_history # None

\* C24: of the history log only the last 300 lines are examined; the
\* session value is that of the newest line matching the 5h pattern and the
\* weekly value that of the newest line matching the weekly pattern, each
\* on its own, whatever older lines hold; exactly one advisory is emitted
\* iff neither pattern matches in those lines.
C24_HistoryScan ==
    (FromHistory /\ NewestMatchesValid) =>
        /\ raised = "none"
        /\ Collected("codex") =>
              LET r == Record("codex")
                  today == (r.updated_at.min \div MinutesPerDay) * MinutesPerDay
              IN  /\ IF FiveInTail = {}
                     THEN r.session_used_pct = None /\ r.session_reset_at = None
                     ELSE /\ r.session_used_pct = Num(Max(0, 100 - NewestFive.left))
                          /\ r.session_reset_at =
                                Dt(today + 60 * NewestFive.hh + NewestFive.mm, 0)
                  /\ IF WeeklyInTail = {}
                     THEN r.weekly_used_pct = None /\ r.weekly_reset_at = None
                     ELSE /\ r.weekly_used_pct = Num(Max(0, 100 - NewestWeekly.left))
                          /\ r.weekly_reset_at =
                                Dt((DaysBefore(NewestWeekly.mon) + NewestWeekly.day - 1)
                                       * MinutesPerDay
                                   + 60 * NewestWeekly.hh + NewestWeekly.mm, 0)
                  /\ Len(ParserMessages(r)) \in {0, 1}
                  /\ (Len(ParserMessages(r)) = 1) <=> (FiveInTail = {} /\ WeeklyInTail = {})

\* A log of 301 lines whose first line matches the 5h pattern and whose
\* second matches the weekly pattern: the weekly value is that of line 2 and
\* there is no session value and no advisory of the parser.
C24_Witness ==
    /\ FromHistory /\ Collected("codex")
    /\ Len(disk.codex_history.lines) = HISTORY_TAIL + 1
    /\ disk.codex_history.lines[1].five # None
    /\ FiveInTail = {}
    /\ WeeklyInTail = {2}
    /\ Record("codex").session_used_pct = None
    /\ Record("codex").weekly_used_pct = Num(20)
    /\ ParserMessages(Record("codex")) = <<>>

\* C25 as stated: every matched line with N% left, N from 0 to 999, gives a
\* percentage used of 100 - N.
C25_UsedIsHundredMinusLeft ==
    (FromHistory /\ NewestMatchesValid /\ Collected("codex")) =>
        /\ FiveInTail # {} => Record("codex").session_used_pct = Num(100 - NewestFive.left)
        /\ WeeklyInTail # {} => Record("codex").weekly_used_pct = Num(100 - NewestWeekly.left)

\* C25 amended: every matched line with N% left gives a percentage used of
\* 100 - N for N up to 100 and of 0 for N from 101 to 999.
C25_UsedIsClamped ==
    (FromHistory /\ NewestMatchesValid /\ Collected("codex")) =>
        /\ FiveInTail # {} =>
              Record("codex").session_used_pct =
                  IF NewestFive.left <= 100 THEN Num(100 - NewestFive.left) ELSE Num(0)
        /\ WeeklyInTail # {} =>
              Record("codex").weekly_used_pct =
                  IF NewestWeekly.left <= 100 THEN Num(100 - NewestWeekly.left) ELSE Num(0)

\* 150% left: 0% used.
C25_Witness ==
    /\ FromHistory /\ Collected("codex")
    /\ FiveInTail # {}
    /\ NewestFive.left = 150
    /\ Record("codex").session_used_pct = Num(0)

---------------------------------------------------------------------------
(* Properties of the tray *)

\* The refresh thread is in its loop.
RefreshThreadRunning == refresh_loop \in {"check", "refresh"}

\* The title is no longer the one the icon was made with.
TitleRefreshed == icon.title # Str("UsageDash")

\* C30: once run_tray has started, as long as the icon is visible the
\* refresh thread is running, and the title is eventually the summary of the
\* mirror file, however the thread's first test of icon.visible and
\* icon.run() interleave and whatever the dashboard is writing.
C30_TrayRefreshLiveness ==
    /\ [](icon.visible => RefreshThreadRunning)
    /\ icon.visible ~> (TitleRefreshed \/ ~icon.visible)

====
